---- MODULE Spec2Model ----
(***************************************************************************)
(* The asynchronous GPU transfer engine of Blaze4D                         *)
(* (src/src/device/transfer/mod.rs).                                       *)
(*                                                                         *)
(* Producer threads call the public operations of Transfer; every one of   *)
(* them pushes a Task onto the queue of the Share, which one worker thread *)
(* drains.  The Transfer half is translated from mod.rs.  The Share, the   *)
(* worker loop and the staging allocator live in the sub-modules worker,   *)
(* allocator, recorder and resource_state, which mod.rs only declares      *)
(* (lines 1-4): they are modelled from the design document, sections 3,    *)
(* 4.2 and 4.4.                                                            *)
(***************************************************************************)
EXTENDS Integers, Sequences, FiniteSets, TLC

(***************************************************************************)
(* Bounds of the model.                                                    *)
(***************************************************************************)
\* Number of tasks the producers push in one run.
MaxTasks == 3
\* Largest raw SyncId: release_* mints 1..MaxSyncId, SyncId::from_raw takes the same.
MaxSyncId == 2

\* The resources, the staging leases handed out in one run, and the caller
\* threads that may be blocked in wait_for_submit / wait_for_complete.
Buffers == {"b1"}
Images == {"i1"}
LeaseIds == {"m1"}
Callers == {"c1", "c2"}
RawIds == 1 .. MaxSyncId
None == "none"

\* Largest queue family index of the device.
MaxFamily == 2
\* Number of blocks of the staging allocator's backing buffer.
MaxPool == 4

\* Queue families, and samples of the stage masks, access masks and image
\* layouts a caller may pass as usage.
Families == 0 .. MaxFamily
Stages == {"FRAGMENT_SHADER", "COMPUTE_SHADER"}
Accesses == {"SHADER_READ", "SHADER_WRITE"}
Layouts == {"UNDEFINED", "GENERAL", "SHADER_READ_ONLY_OPTIMAL", "TRANSFER_DST_OPTIMAL"}

\* Option<T>: None is the empty sequence, Some(x) the sequence of x alone.
OptNone == <<>>
Some(x) == <<x>>

\* The usage arguments: Option<(stage mask, access mask, queue family)> for a
\* buffer, Option<(stage mask, access mask, queue family, layout)> for an image.
BufferUsages == {OptNone} \cup {Some(<<s, a, f>>) : s \in Stages, a \in Accesses, f \in Families}
ImageUsages ==
    {OptNone} \cup {Some(<<s, a, f, l>>) : s \in Stages, a \in Accesses, f \in Families, l \in Layouts}

\* The staging allocations of one run, the capacities requested and the
\* blocks of the backing buffer.
PoolIds == {"a1", "a2", "a3"}
Capacities == {1, 2}
Blocks == 0 .. MaxPool - 1

\* usize takes the values 0 .. UsizeModulus - 1.
UsizeModulus == 8
UsizeMax == UsizeModulus - 1
\* Largest number of elements of a slice passed to write / read.
MaxData == 2

\* The backing buffer of the staging allocator; one block of it is one byte.
Backing == "backing"

\* The element types T of write<T> / read<T>, their sizes and a sample of
\* their values, each value given as its bytes in memory.
ElemTypes == {"u8", "u16"}
size_of(T) == IF T = "u8" THEN 1 ELSE 2
Values(T) == IF T = "u8" THEN {<<1>>, <<2>>} ELSE {<<1, 2>>}
Slices(T) == UNION {[1 .. n -> Values(T)] : n \in 0 .. MaxData}
\* The offsets passed to write_offset / read_offset.
Offsets == {0, 1, 2, UsizeMax}

\* The backing memory id of a lease, as a BufferId (BufferId::from_raw(memory_id)).
MemName(m) == <<"staging", m>>
DevName(b) == <<"device", b>>
NoBuf == <<"none", "none">>

VARIABLES
    queue,          \* Share: the FIFO of pending tasks
    next_sync_id,   \* Share: the next SyncId a release mints
    last_submitted, \* Share: last submitted SyncId
    last_completed, \* Share: last completed SyncId
    terminated,     \* Share: the termination flag
    wpc,            \* worker: "check", "blocked", "record", "fence", "done", "panicked"
    pending,        \* worker: the tasks drained from the queue, not yet handled
    batch,          \* worker: the tasks recorded into the open command buffer
    inflight,       \* worker: the submitted batch and whether its fence is signalled
    to_free,        \* worker: leases whose StagingRelease waits for a completion
    mem,            \* device: for each buffer, the data it holds
    lease,          \* allocator: state of each lease: "unused", "live", "dropped", "freed"
    waiting,        \* the blocked calls of wait_for_submit / wait_for_complete
    transfer,       \* the Transfer object: "alive", "joining", "dropped"
    budget,         \* the number of tasks the producers push in this run
    last_call,      \* the most recent acquire or release call and its result
    held,           \* history: successful acquires not yet released, per resource
    n_issued,       \* history: number of tasks the producers asked to enqueue
    n_consumed,     \* history: number of tasks the worker took from the queue
    exec_upto,      \* history: the last task the device executed
    last_to,        \* history: per device buffer, the last copy_to_buffer issued
    rel_seq,        \* history: per SyncId, the task of the release that returned it
    returned,       \* history: the SyncIds release_* returned, in order
    unblocked,      \* history: the largest id each kind of wait has returned for
    flushed,        \* history: the SyncIds flushed after release_* returned them
    at_terminate,   \* history: number of unprocessed tasks when terminate() was called
    queue_family,   \* Transfer: the queue family of the transfer queue
    prep,           \* the most recent prepare_* call: function, usage and the op returned
    prev,           \* the prepare_* call before it
    pool,           \* allocator: state and byte range of each staging allocation
    bytes,          \* the bytes of the staging backing buffer and of each device buffer
    scall,          \* the most recent call on a StagingMemory, its arguments and result
    rt,             \* history of the upload / download round trip
    log             \* the error messages logged

(***************************************************************************)
(* The debug pipeline (renderer/emulator/debug_pipeline.rs): the pipeline  *)
(* with its pass objects and its map of shader pipelines, the threads that *)
(* start passes on it, and one pass processing its tasks.                  *)
(***************************************************************************)
VARIABLES
    next_index,             \* DebugPipeline.next_index, an AtomicUsize
    ready,                  \* PassObjects.ready of every pass object, an AtomicBool
    destroyed,              \* the destroy / free calls made, each <<pass object, resource>>
    pipeline_state,         \* the DebugPipeline: "alive", "dropping", "dropped"
    drop_at,                \* the pass object the loop of Drop for DebugPipeline is at
    tpc,                    \* per thread: "idle", in start_pass at "load", "cas", "take", or holding a "pass"
    current,                \* per thread: the local current of get_next_index
    pass_index,             \* per thread: the index get_next_index returned (DebugPipelinePass.index)
    handed,                 \* history: the indices get_next_index returned, in the order of the exchanges
    pipelines,              \* DebugPipeline.pipelines: ShaderId -> Option<ShaderPipelines>
    shader_alive,           \* the emulator's shaders: TRUE until the shader is dropped
    in_use,                 \* history: per shader, the inc_shader_used calls not yet matched by a dec_shader_used
    removed,                \* history: the shaders whose entry was removed from pipelines
    shader_uniforms,        \* DebugPipelinePass.shader_uniforms: ShaderId -> Option<UniformStateTracker>
    current_pipeline,       \* DebugPipelinePass.current_pipeline
    current_vertex_buffer,  \* DebugPipelinePass.current_vertex_buffer
    current_index_buffer,   \* DebugPipelinePass.current_index_buffer
    cmd,                    \* the state the commands recorded so far leave in the command buffer
    last_draw,              \* history: the last task, if a draw, with the command buffer state it drew with
    n_tasks                 \* history: the tasks the pass has processed

passVars == <<next_index, ready, destroyed, pipeline_state, drop_at, tpc, current, pass_index, handed>>
shaderVars == <<pipelines, shader_alive, in_use, removed>>
drawVars == <<shader_uniforms, current_pipeline, current_vertex_buffer, current_index_buffer, cmd, last_draw, n_tasks>>
pipelineVars == <<passVars, shaderVars, drawVars>>

\* DebugPipeline::new builds two pass objects.
PassObjectCount == 2
PassIndices == 0 .. PassObjectCount - 1

\* The start_pass calls of one run, the uses of one shader outstanding at a
\* time and the tasks of one pass.
MaxStarts == 4
MaxUsed == 2
MaxPassTasks == 4

Threads == {"t1", "t2", "t3"}
ShaderIds == {"s1", "s2", "s3"}

\* What PassObjects::new creates for one pass object.
Attachments == {"depth", "color", "uv0"}
Resources ==
    {<<"all", "framebuffer">>} \cup
    {<<a, r>> : a \in Attachments, r \in {"image", "allocation", "framebuffer_view", "sampler_view"}}

\* DebugPipeline::new and PassObjects::new: the counter at 0, every pass
\* object ready, all of its resources created, no shader pipelines.
DebugPipeline_new ==
    /\ next_index = 0
    /\ ready = [i \in PassIndices |-> TRUE]
    /\ destroyed = <<>>
    /\ pipeline_state = "alive"
    /\ drop_at = 0
    /\ pipelines = [s \in ShaderIds |-> OptNone]

\* UniformStateTracker::new: both dirty, identity matrices (1) and zeros.
UniformStateTracker_new ==
    [push_constants_dirty |-> TRUE,
     static_uniforms_dirty |-> TRUE,
     push_constant_cache |-> [model_view_matrix |-> 1, chunk_offset |-> 0],
     static_uniform_cache |-> [projection_matrix |-> 1, screen_size |-> 0, fog_color |-> 0,
                               fog_range_and_game_time |-> <<0, 0, 0>>, fog_shape |-> 0]]

\* What the command buffer holds when the pass starts to process tasks:
\* nothing bound, no push constants, no descriptor pushed.
EmptyCommandBuffer ==
    [pipeline |-> OptNone, push_constants |-> OptNone, static_uniforms |-> OptNone,
     vertex_buffer |-> OptNone, index_buffer |-> OptNone]

\* DebugPipelinePass::new
DebugPipelinePass_new ==
    /\ shader_uniforms = [s \in ShaderIds |-> OptNone]
    /\ current_pipeline = OptNone
    /\ current_vertex_buffer = OptNone
    /\ current_index_buffer = OptNone
    /\ cmd = EmptyCommandBuffer

\* The debug pipeline as constructed, no thread inside it, every shader of
\* the emulator alive and unused, a pass that has processed nothing.
PipelineStart ==
    /\ DebugPipeline_new
    /\ tpc = [t \in Threads |-> "idle"]
    /\ current = [t \in Threads |-> 0]
    /\ pass_index = [t \in Threads |-> 0]
    /\ handed = <<>>
    /\ shader_alive = [s \in ShaderIds |-> TRUE]
    /\ in_use = [s \in ShaderIds |-> 0]
    /\ removed = {}
    /\ DebugPipelinePass_new
    /\ last_draw = OptNone
    /\ n_tasks = 0

transferVars == <<queue, next_sync_id, last_submitted, last_completed, terminated, wpc,
          pending, batch, inflight, to_free, mem, lease, waiting, transfer,
          budget, last_call, held, n_issued, n_consumed, exec_upto, last_to, rel_seq,
          returned, unblocked, flushed, at_terminate, queue_family, prep, prev, pool,
          bytes, scall, rt, log>>

vars == <<transferVars, pipelineVars>>

prepVars == <<queue_family, prep, prev>>
stagingVars == <<bytes, scall, rt>>
shareVars == <<queue, next_sync_id, last_submitted, last_completed, terminated>>
workerVars == <<wpc, pending, batch, inflight, to_free>>
historyVars == <<budget, held, n_issued, n_consumed, exec_upto, last_to, rel_seq,
                 returned, unblocked, flushed, at_terminate, prepVars, pool, stagingVars>>

Max(a, b) == IF a >= b THEN a ELSE b

\* BufferTransferRanges and BufferImageTransferRanges: one range, or a
\* boxed list of ranges.
One(range) == [variant |-> "One", ranges |-> <<range>>]
Multiple(ranges) == [variant |-> "Multiple", ranges |-> ranges]
NoRanges == Multiple(<<>>)
\* BufferTransferRanges::as_slice
as_slice(ranges) == ranges.ranges

(***************************************************************************)
(* Tasks (design document, section 3).  Every task is a record of the same *)
(* shape: kind, the resource of an acquire or release, source and          *)
(* destination buffer of a copy, and the SyncId of a release or flush.     *)
(* A copy carries its ranges (none in the tasks of the operations that are *)
(* modelled without byte ranges).                                          *)
(* Two more fields are history: seq, the position of the task among the    *)
(* tasks issued, and expect, for a copy out of a device buffer the         *)
(* copy_to_buffer that was the last one issued into that buffer.           *)
(***************************************************************************)
Task(kind, obj, src, dst, id) ==
    [kind |-> kind, obj |-> obj, src |-> src, dst |-> dst, id |-> id,
     ranges |-> NoRanges,
     seq |-> n_issued + 1,
     expect |-> IF src[1] = "device" THEN last_to[src[2]] ELSE 0]

BufferAcquireTask(b) == Task("BufferAcquire", b, NoBuf, NoBuf, 0)
ImageAcquireTask(i) == Task("ImageAcquire", i, NoBuf, NoBuf, 0)
BufferReleaseTask(b, id) == Task("BufferRelease", b, NoBuf, NoBuf, id)
ImageReleaseTask(i, id) == Task("ImageRelease", i, NoBuf, NoBuf, id)
FlushTask(id) == Task("Flush", None, NoBuf, NoBuf, id)
StagingReleaseTask(m) == Task("StagingRelease", None, MemName(m), NoBuf, 0)
BufferTransferTask(src, dst) == Task("BufferTransfer", None, src, dst, 0)

IsRelease(task) == task.kind \in {"BufferRelease", "ImageRelease"}

\* Mutant of from_raw: the raw value loses its high bits.
from_raw_truncated(raw) == raw % 2

\* SyncId::from_raw and SyncId::get_raw: SyncId is a newtype over u64.
from_raw(raw) == raw
get_raw(id) == id

\* The content of a buffer: data names the copy_to_buffer that brought it
\* from staging memory (0: the initial content); expect is the data the copy
\* that wrote the buffer was issued to move.
Cell(data, expect) == [data |-> data, expect |-> expect]

\* The message of the drop of a Transfer whose worker panicked.
WorkerPanicked == "Transfer channel worker panicked!"

\* No prepare_* call made yet; an allocation id not handed out yet.
NoCall == [fn |-> "none", usage |-> OptNone, op |-> OptNone]
Unallocated ==
    [state |-> "unused", capacity |-> 0, alloc_offset |-> 0, alloc_size |-> 0,
     buffer_offset |-> 0, len |-> 0]

\* No call on a StagingMemory made yet; no step of a round trip taken yet.
NoStagingCall ==
    [fn |-> "none", lease |-> None, T |-> "u8", data |-> <<>>, offset |-> 0,
     before |-> <<>>, after |-> <<>>, out |-> <<>>, result |-> [tag |-> "none", n |-> 0],
     covered |-> FALSE, ranges |-> NoRanges, task |-> OptNone]
NoRoundTrip ==
    [wrote |-> OptNone, to_seq |-> 0, from_seq |-> 0, waited |-> FALSE]

Start ==
    /\ queue = <<>>
    /\ next_sync_id = 1
    /\ last_submitted = 0
    /\ last_completed = 0
    /\ terminated = FALSE
    /\ wpc = "check"
    /\ pending = <<>>
    /\ batch = <<>>
    /\ inflight = [tasks |-> <<>>, signalled |-> FALSE]
    /\ to_free = {}
    /\ mem = [x \in {DevName(b) : b \in Buffers} \cup {MemName(m) : m \in LeaseIds \cup PoolIds}
                |-> Cell(0, 0)]
    /\ lease = [m \in LeaseIds |-> "unused"]
    /\ waiting = {}
    /\ transfer = "alive"
    /\ last_call = [op |-> "new", obj |-> None, was_held |-> FALSE, result |-> "Ok"]
    /\ held = [r \in Buffers \cup Images |-> 0]
    /\ n_issued = 0
    /\ n_consumed = 0
    /\ exec_upto = 0
    /\ last_to = [b \in Buffers |-> 0]
    /\ rel_seq = [id \in RawIds |-> 0]
    /\ returned = <<>>
    /\ unblocked = [submit |-> 0, complete |-> 0]
    /\ flushed = {}
    /\ at_terminate = 0
    /\ prep = NoCall
    /\ prev = NoCall
    /\ pool = [a \in PoolIds |-> Unallocated]
    /\ bytes = [x \in {Backing} \cup Buffers |-> [k \in 1 .. MaxPool |-> 0]]
    /\ scall = NoStagingCall
    /\ rt = NoRoundTrip
    /\ log = <<>>
    /\ PipelineStart

\* Transfer::new: the queue family is that of the queue the engine is given.
Init == Start /\ budget = MaxTasks /\ queue_family = 0

(***************************************************************************)
(* Share (sub-module worker, not among the sources): the queue, the mutex  *)
(* and condition variable guarding it, the SyncId counter and the two      *)
(* progress counters.  Every operation below runs under the mutex.         *)
(***************************************************************************)
\* A notify on the condition variable wakes the worker if it is blocked there.
Notified == IF wpc = "blocked" THEN "check" ELSE wpc

\* Share::push_task: append to the FIFO and notify.
push_task(task) ==
    /\ queue' = Append(queue, task)
    /\ wpc' = Notified

\* Share::push_buffer_release_task: mint the next SyncId and push the release with it.
push_buffer_release_task(b) ==
    /\ queue' = Append(queue, BufferReleaseTask(b, next_sync_id))
    /\ next_sync_id' = next_sync_id + 1
    /\ wpc' = Notified

\* Share::push_image_release_task
push_image_release_task(i) ==
    /\ queue' = Append(queue, ImageReleaseTask(i, next_sync_id))
    /\ next_sync_id' = next_sync_id + 1
    /\ wpc' = Notified

\* Mutant of share_wait_for_submit: waits for the counter to equal id.
share_wait_for_submit_exact(id) == last_submitted = id

\* Share::wait_for_submit(id) returns once the last-submitted counter reaches or passes id.
share_wait_for_submit(id) == last_submitted >= id

\* Share::wait_for_complete(id) returns once the last-completed counter reaches or passes id.
share_wait_for_complete(id) == last_completed >= id

\* Share::terminate: set the flag and notify.
share_terminate ==
    /\ terminated' = TRUE
    /\ wpc' = Notified

(***************************************************************************)
(* Transfer: the public operations (mod.rs, impl Transfer).                *)
(***************************************************************************)
\* Any number of producer threads call into the Transfer while it is alive; a
\* thread blocked in a wait is an element of waiting.
Alive == transfer = "alive"
CanPush == n_issued < budget

Call(op, obj, was_held, result) ==
    [op |-> op, obj |-> obj, was_held |-> was_held, result |-> result]

\* Mutant of acquire_buffer: returns Ok without pushing the task.
acquire_buffer_unpushed(b) ==
    /\ Alive /\ CanPush
    /\ n_issued' = n_issued + 1
    /\ last_call' = Call("acquire_buffer", b, held[b] > 0, "Ok")
    /\ held' = [held EXCEPT ![b] = @ + 1]
    /\ UNCHANGED <<shareVars, workerVars, mem, lease, waiting, transfer,
                   n_consumed, exec_upto, last_to, rel_seq, returned, unblocked,
                   flushed, at_terminate, budget, prepVars, pool, stagingVars, log, pipelineVars>>

acquire_buffer(b) ==
    /\ Alive /\ CanPush
    /\ push_task(BufferAcquireTask(b))
    /\ n_issued' = n_issued + 1
    /\ last_call' = Call("acquire_buffer", b, held[b] > 0, "Ok")
    /\ held' = [held EXCEPT ![b] = @ + 1]
    /\ UNCHANGED <<next_sync_id, last_submitted, last_completed, terminated, pending,
                   batch, inflight, to_free, mem, lease, waiting, transfer,
                   n_consumed, exec_upto, last_to, rel_seq, returned, unblocked,
                   flushed, at_terminate, budget, prepVars, pool, stagingVars, log, pipelineVars>>

\* make_image_available appending to the queue without the notify of push_task.
make_image_available_unnotified(i) ==
    /\ Alive /\ CanPush
    /\ queue' = Append(queue, ImageAcquireTask(i))
    /\ n_issued' = n_issued + 1
    /\ last_call' = Call("make_image_available", i, held[i] > 0, "Ok")
    /\ held' = [held EXCEPT ![i] = @ + 1]
    /\ UNCHANGED <<next_sync_id, last_submitted, last_completed, terminated, pending,
                   batch, inflight, to_free, mem, lease, waiting, transfer,
                   n_consumed, exec_upto, last_to, rel_seq, returned, unblocked,
                   flushed, at_terminate, budget, prepVars, pool, stagingVars, log, wpc, pipelineVars>>

make_image_available(i) ==
    /\ Alive /\ CanPush
    /\ push_task(ImageAcquireTask(i))
    /\ n_issued' = n_issued + 1
    /\ last_call' = Call("make_image_available", i, held[i] > 0, "Ok")
    /\ held' = [held EXCEPT ![i] = @ + 1]
    /\ UNCHANGED <<next_sync_id, last_submitted, last_completed, terminated, pending,
                   batch, inflight, to_free, mem, lease, waiting, transfer,
                   n_consumed, exec_upto, last_to, rel_seq, returned, unblocked,
                   flushed, at_terminate, budget, prepVars, pool, stagingVars, log, pipelineVars>>

release_buffer(b) ==
    /\ Alive /\ CanPush /\ next_sync_id <= MaxSyncId
    /\ push_buffer_release_task(b)
    /\ n_issued' = n_issued + 1
    /\ last_call' = Call("release_buffer", b, held[b] > 0, "Ok")
    /\ returned' = Append(returned, from_raw(next_sync_id))
    /\ rel_seq' = [rel_seq EXCEPT ![next_sync_id] = n_issued + 1]
    /\ held' = [held EXCEPT ![b] = Max(@ - 1, 0)]
    /\ UNCHANGED <<last_submitted, last_completed, terminated, pending,
                   batch, inflight, to_free, mem, lease, waiting, transfer,
                   n_consumed, exec_upto, last_to, unblocked, flushed, at_terminate, budget,
                   prepVars, pool, stagingVars, log, pipelineVars>>

release_image(i) ==
    /\ Alive /\ CanPush /\ next_sync_id <= MaxSyncId
    /\ push_image_release_task(i)
    /\ n_issued' = n_issued + 1
    /\ last_call' = Call("release_image", i, held[i] > 0, "Ok")
    /\ returned' = Append(returned, from_raw(next_sync_id))
    /\ rel_seq' = [rel_seq EXCEPT ![next_sync_id] = n_issued + 1]
    /\ held' = [held EXCEPT ![i] = Max(@ - 1, 0)]
    /\ UNCHANGED <<last_submitted, last_completed, terminated, pending,
                   batch, inflight, to_free, mem, lease, waiting, transfer,
                   n_consumed, exec_upto, last_to, unblocked, flushed, at_terminate, budget,
                   prepVars, pool, stagingVars, log, pipelineVars>>

\* Mutant of flush: returns without pushing the Flush task.
flush_unpushed(id) ==
    /\ Alive /\ CanPush
    /\ n_issued' = n_issued + 1
    /\ flushed' = IF id \in RawIds /\ rel_seq[id] > 0 THEN flushed \cup {id} ELSE flushed
    /\ UNCHANGED <<shareVars, workerVars, mem, lease, waiting, transfer, last_call,
                   held, n_consumed, exec_upto, last_to, rel_seq, returned, unblocked,
                   at_terminate, budget, prepVars, pool, stagingVars, log, pipelineVars>>

\* Mutant of flush: the call itself marks the SyncId as submitted.
flush_marks_submitted(id) ==
    /\ Alive /\ CanPush
    /\ queue' = Append(queue, FlushTask(get_raw(id)))
    /\ wpc' = Notified
    /\ last_submitted' = Max(last_submitted, get_raw(id))
    /\ n_issued' = n_issued + 1
    /\ flushed' = IF id \in RawIds /\ rel_seq[id] > 0 THEN flushed \cup {id} ELSE flushed
    /\ UNCHANGED <<next_sync_id, last_completed, terminated, pending,
                   batch, inflight, to_free, mem, lease, waiting, transfer, last_call,
                   held, n_consumed, exec_upto, last_to, rel_seq, returned, unblocked,
                   at_terminate, budget, prepVars, pool, stagingVars, log, pipelineVars>>

\* Mutant of flush: the call waits while the worker waits on a fence.
flush_after_fence(id) ==
    /\ Alive /\ CanPush
    /\ wpc # "fence"
    /\ push_task(FlushTask(get_raw(id)))
    /\ n_issued' = n_issued + 1
    /\ flushed' = IF id \in RawIds /\ rel_seq[id] > 0 THEN flushed \cup {id} ELSE flushed
    /\ UNCHANGED <<next_sync_id, last_submitted, last_completed, terminated, pending,
                   batch, inflight, to_free, mem, lease, waiting, transfer, last_call,
                   held, n_consumed, exec_upto, last_to, rel_seq, returned, unblocked,
                   at_terminate, budget, prepVars, pool, stagingVars, log, pipelineVars>>

flush(id) ==
    /\ Alive /\ CanPush
    /\ push_task(FlushTask(get_raw(id)))
    /\ n_issued' = n_issued + 1
    /\ flushed' = IF id \in RawIds /\ rel_seq[id] > 0 THEN flushed \cup {id} ELSE flushed
    /\ UNCHANGED <<next_sync_id, last_submitted, last_completed, terminated, pending,
                   batch, inflight, to_free, mem, lease, waiting, transfer, last_call,
                   held, n_consumed, exec_upto, last_to, rel_seq, returned, unblocked,
                   at_terminate, budget, prepVars, pool, stagingVars, log, pipelineVars>>

\* wait_for_submit and wait_for_complete block their caller: the call ...
Wait(kind, id) == [kind |-> kind, id |-> id]

wait_for_submit(id) ==
    /\ Alive
    /\ Cardinality(waiting) < Cardinality(Callers)
    /\ Wait("submit", id) \notin waiting
    /\ waiting' = waiting \cup {Wait("submit", id)}
    /\ UNCHANGED <<shareVars, workerVars, mem, lease, transfer, last_call, historyVars, log, pipelineVars>>

wait_for_complete(id) ==
    /\ Alive
    /\ Cardinality(waiting) < Cardinality(Callers)
    /\ Wait("complete", id) \notin waiting
    /\ waiting' = waiting \cup {Wait("complete", id)}
    /\ UNCHANGED <<shareVars, workerVars, mem, lease, transfer, last_call, historyVars, log, pipelineVars>>

\* ... and the return, when the Share lets the caller through.
\* Mutant of complete_reached: wait_for_complete waits for the submission only.
complete_reached_at_submit(id) == share_wait_for_submit(get_raw(id))

submit_reached(id) == share_wait_for_submit(get_raw(id))
complete_reached(id) == share_wait_for_complete(get_raw(id))

wait_for_submit_returns(id) ==
    /\ Wait("submit", id) \in waiting
    /\ submit_reached(id)
    /\ waiting' = waiting \ {Wait("submit", id)}
    /\ unblocked' = [unblocked EXCEPT !.submit = Max(@, id)]
    /\ UNCHANGED <<shareVars, workerVars, mem, lease, transfer, last_call, held,
                   n_issued, n_consumed, exec_upto, last_to, rel_seq, returned,
                   flushed, at_terminate, budget, prepVars, pool, stagingVars, log, pipelineVars>>

wait_for_complete_returns(id) ==
    /\ Wait("complete", id) \in waiting
    /\ complete_reached(id)
    /\ waiting' = waiting \ {Wait("complete", id)}
    /\ unblocked' = [unblocked EXCEPT !.complete = Max(@, id)]
    /\ UNCHANGED <<shareVars, workerVars, mem, lease, transfer, last_call, held,
                   n_issued, n_consumed, exec_upto, last_to, rel_seq, returned,
                   flushed, at_terminate, budget, prepVars, pool, stagingVars, log, pipelineVars>>

(***************************************************************************)
(* The ownership transfer protocol (mod.rs, prepare_* and the op types).   *)
(* A barrier descriptor is a record of the fields the builder sets; the    *)
(* fields a builder call chain leaves out keep the default of the          *)
(* structure: an empty mask ("NONE"), queue family index 0.                *)
(***************************************************************************)
BufferBarrier(buffer, offset, size, src_stage, src_access, dst_stage, dst_access, src_family, dst_family) ==
    [buffer |-> buffer, offset |-> offset, size |-> size,
     src_stage_mask |-> src_stage, src_access_mask |-> src_access,
     dst_stage_mask |-> dst_stage, dst_access_mask |-> dst_access,
     src_queue_family_index |-> src_family, dst_queue_family_index |-> dst_family]

ImageBarrier(image, src_stage, src_access, dst_stage, dst_access, old, new, src_family, dst_family) ==
    [image |-> image,
     src_stage_mask |-> src_stage, src_access_mask |-> src_access,
     dst_stage_mask |-> dst_stage, dst_access_mask |-> dst_access,
     old_layout |-> old, new_layout |-> new,
     src_queue_family_index |-> src_family, dst_queue_family_index |-> dst_family]

TransferAccess == {"TRANSFER_READ", "TRANSFER_WRITE"}

\* Mutant of prepare_buffer_acquire: an absent usage is given default masks.
prepare_buffer_acquire_defaulted(buffer, usage) ==
    IF usage # OptNone
    THEN LET src_stage_mask == usage[1][1]
             src_access_mask == usage[1][2]
             src_queue_family == usage[1][3]
             queue_info == IF src_queue_family = queue_family THEN OptNone
                           ELSE Some(<<src_queue_family, queue_family>>)
         IN [buffer |-> buffer, offset |-> 0, size |-> "WHOLE_SIZE",
             src_info |-> Some(<<src_stage_mask, src_access_mask>>),
             queue_info |-> queue_info]
    ELSE [buffer |-> buffer, offset |-> 0, size |-> "WHOLE_SIZE",
          src_info |-> Some(<<"NONE", "NONE">>), queue_info |-> OptNone]

\* Mutant of prepare_buffer_acquire: the masks of the usage are not kept.
prepare_buffer_acquire_unmasked(buffer, usage) ==
    IF usage # OptNone
    THEN LET src_queue_family == usage[1][3]
             queue_info == IF src_queue_family = queue_family THEN OptNone
                           ELSE Some(<<src_queue_family, queue_family>>)
         IN [buffer |-> buffer, offset |-> 0, size |-> "WHOLE_SIZE",
             src_info |-> OptNone,
             queue_info |-> queue_info]
    ELSE [buffer |-> buffer, offset |-> 0, size |-> "WHOLE_SIZE",
          src_info |-> OptNone, queue_info |-> OptNone]

\* Transfer::prepare_buffer_acquire
prepare_buffer_acquire(buffer, usage) ==
    IF usage # OptNone
    THEN LET src_stage_mask == usage[1][1]
             src_access_mask == usage[1][2]
             src_queue_family == usage[1][3]
             queue_info == IF src_queue_family = queue_family THEN OptNone
                           ELSE Some(<<src_queue_family, queue_family>>)
         IN [buffer |-> buffer, offset |-> 0, size |-> "WHOLE_SIZE",
             src_info |-> Some(<<src_stage_mask, src_access_mask>>),
             queue_info |-> queue_info]
    ELSE [buffer |-> buffer, offset |-> 0, size |-> "WHOLE_SIZE",
          src_info |-> OptNone, queue_info |-> OptNone]

\* Mutant of prepare_buffer_release: the families are recorded without
\* comparing them.
prepare_buffer_release_always(buffer, usage) ==
    IF usage # OptNone
    THEN LET dst_stage_mask == usage[1][1]
             dst_access_mask == usage[1][2]
             dst_queue_family == usage[1][3]
         IN [buffer |-> buffer, offset |-> 0, size |-> "WHOLE_SIZE",
             dst_info |-> Some(<<dst_stage_mask, dst_access_mask>>),
             queue_info |-> Some(<<queue_family, dst_queue_family>>)]
    ELSE [buffer |-> buffer, offset |-> 0, size |-> "WHOLE_SIZE",
          dst_info |-> OptNone, queue_info |-> OptNone]

\* Transfer::prepare_buffer_release
prepare_buffer_release(buffer, usage) ==
    IF usage # OptNone
    THEN LET dst_stage_mask == usage[1][1]
             dst_access_mask == usage[1][2]
             dst_queue_family == usage[1][3]
             queue_info == IF dst_queue_family = queue_family THEN OptNone
                           ELSE Some(<<queue_family, dst_queue_family>>)
         IN [buffer |-> buffer, offset |-> 0, size |-> "WHOLE_SIZE",
             dst_info |-> Some(<<dst_stage_mask, dst_access_mask>>),
             queue_info |-> queue_info]
    ELSE [buffer |-> buffer, offset |-> 0, size |-> "WHOLE_SIZE",
          dst_info |-> OptNone, queue_info |-> OptNone]

\* BufferAcquireOp::make_barrier: the barrier the caller submits, only if a
\* queue family transfer is necessary.
BufferAcquireOp_make_barrier(op) ==
    IF op.queue_info = OptNone THEN OptNone
    ELSE Some(BufferBarrier(op.buffer, op.offset, op.size,
                            op.src_info[1][1], op.src_info[1][2], "NONE", "NONE",
                            op.queue_info[1][1], op.queue_info[1][2]))

\* BufferAcquireOp::make_transfer_barrier: the barrier the engine submits.
BufferAcquireOp_make_transfer_barrier(op, dst_stage_mask, dst_access_mask) ==
    IF op.src_info = OptNone THEN OptNone
    ELSE IF op.queue_info # OptNone
         THEN Some(BufferBarrier(op.buffer, op.offset, op.size,
                            "NONE", "NONE", dst_stage_mask, dst_access_mask,
                                 op.queue_info[1][1], op.queue_info[1][2]))
         ELSE Some(BufferBarrier(op.buffer, op.offset, op.size,
                            op.src_info[1][1], op.src_info[1][2],
                                 dst_stage_mask, dst_access_mask, 0, 0))

\* BufferReleaseOp::make_barrier
BufferReleaseOp_make_barrier(op) ==
    IF op.queue_info = OptNone THEN OptNone
    ELSE Some(BufferBarrier(op.buffer, op.offset, op.size,
                            "NONE", "NONE", op.dst_info[1][1], op.dst_info[1][2],
                            op.queue_info[1][1], op.queue_info[1][2]))

\* Mutant of BufferReleaseOp_make_transfer_barrier: the engine's barrier names
\* the families in acquire order.
BufferReleaseOp_make_transfer_barrier_swapped(op, src_stage_mask, src_access_mask) ==
    IF op.dst_info = OptNone THEN OptNone
    ELSE IF op.queue_info # OptNone
         THEN Some(BufferBarrier(op.buffer, op.offset, op.size,
                                 src_stage_mask, src_access_mask, "NONE", "NONE",
                                 op.queue_info[1][2], op.queue_info[1][1]))
         ELSE Some(BufferBarrier(op.buffer, op.offset, op.size,
                                 src_stage_mask, src_access_mask,
                                 op.dst_info[1][1], op.dst_info[1][2], 0, 0))

\* BufferReleaseOp::make_transfer_barrier
BufferReleaseOp_make_transfer_barrier(op, src_stage_mask, src_access_mask) ==
    IF op.dst_info = OptNone THEN OptNone
    ELSE IF op.queue_info # OptNone
         THEN Some(BufferBarrier(op.buffer, op.offset, op.size,
                            src_stage_mask, src_access_mask, "NONE", "NONE",
                                 op.queue_info[1][1], op.queue_info[1][2]))
         ELSE Some(BufferBarrier(op.buffer, op.offset, op.size,
                            src_stage_mask, src_access_mask,
                                 op.dst_info[1][1], op.dst_info[1][2], 0, 0))

ImageAvailabilityOp(image, local_layout, barrier) ==
    [image |-> image, local_layout |-> local_layout, barrier |-> barrier]

\* Mutant of prepare_image_acquire: without a barrier the image is taken to
\* be in GENERAL.
prepare_image_acquire_assume_general(image, usage) ==
    IF usage # OptNone
    THEN LET stage == usage[1][1]
             access == usage[1][2]
             family == usage[1][3]
             layout == usage[1][4]
         IN IF layout # "UNDEFINED" /\ (family # queue_family \/ layout # "GENERAL")
            THEN ImageAvailabilityOp(image, "GENERAL",
                     Some(ImageBarrier(image, stage, access, "TRANSFER", TransferAccess,
                                       layout, "GENERAL", family, queue_family)))
            ELSE ImageAvailabilityOp(image, "GENERAL", OptNone)
    ELSE ImageAvailabilityOp(image, "UNDEFINED", OptNone)

\* Transfer::prepare_image_acquire
prepare_image_acquire(image, usage) ==
    IF usage # OptNone
    THEN LET stage == usage[1][1]
             access == usage[1][2]
             family == usage[1][3]
             layout == usage[1][4]
         IN IF layout # "UNDEFINED" /\ (family # queue_family \/ layout # "GENERAL")
            THEN ImageAvailabilityOp(image, "GENERAL",
                     Some(ImageBarrier(image, stage, access, "TRANSFER", TransferAccess,
                                       layout, "GENERAL", family, queue_family)))
            ELSE ImageAvailabilityOp(image, layout, OptNone)
    ELSE ImageAvailabilityOp(image, "UNDEFINED", OptNone)

\* Mutant of prepare_image_release: the barrier is built with the families
\* in acquire order.
prepare_image_release_swapped(image, usage) ==
    IF usage # OptNone
    THEN LET stage == usage[1][1]
             access == usage[1][2]
             family == usage[1][3]
             layout == usage[1][4]
         IN IF layout # "UNDEFINED" /\ family # queue_family
            THEN ImageAvailabilityOp(image, "GENERAL",
                     Some(ImageBarrier(image, "TRANSFER", TransferAccess, stage, access,
                                       "GENERAL", layout, family, queue_family)))
            ELSE ImageAvailabilityOp(image, layout, OptNone)
    ELSE ImageAvailabilityOp(image, "UNDEFINED", OptNone)

\* Mutant of prepare_image_release: the barrier is built with the layouts
\* in acquire order.
prepare_image_release_to_general(image, usage) ==
    IF usage # OptNone
    THEN LET stage == usage[1][1]
             access == usage[1][2]
             family == usage[1][3]
             layout == usage[1][4]
         IN IF layout # "UNDEFINED" /\ family # queue_family
            THEN ImageAvailabilityOp(image, "GENERAL",
                     Some(ImageBarrier(image, "TRANSFER", TransferAccess, stage, access,
                                       layout, "GENERAL", queue_family, family)))
            ELSE ImageAvailabilityOp(image, layout, OptNone)
    ELSE ImageAvailabilityOp(image, "UNDEFINED", OptNone)

\* Transfer::prepare_image_release
prepare_image_release(image, usage) ==
    IF usage # OptNone
    THEN LET stage == usage[1][1]
             access == usage[1][2]
             family == usage[1][3]
             layout == usage[1][4]
         IN IF layout # "UNDEFINED" /\ family # queue_family
            THEN ImageAvailabilityOp(image, "GENERAL",
                     Some(ImageBarrier(image, "TRANSFER", TransferAccess, stage, access,
                                       "GENERAL", layout, queue_family, family)))
            ELSE ImageAvailabilityOp(image, layout, OptNone)
    ELSE ImageAvailabilityOp(image, "UNDEFINED", OptNone)

\* ImageAvailabilityOp::get_barrier
get_barrier(op) == op.barrier

\* A call of a prepare_* function by some thread: the call and the op it
\* returned are remembered, the call before it too.
PrepareCall(fn, usage, op) ==
    /\ Alive
    /\ prev' = prep
    /\ prep' = [fn |-> fn, usage |-> usage, op |-> op]
    /\ UNCHANGED <<shareVars, workerVars, mem, lease, waiting, transfer, last_call,
                   budget, held, n_issued, n_consumed, exec_upto, last_to, rel_seq,
                   returned, unblocked, flushed, at_terminate, queue_family, pool,
                   stagingVars, log, pipelineVars>>

call_prepare_buffer_acquire(b, usage) ==
    PrepareCall("prepare_buffer_acquire", usage, prepare_buffer_acquire(b, usage))

\* Mutant of call_prepare_buffer_release: the call releases the buffer.
call_prepare_buffer_release_releasing(b, usage) ==
    /\ Alive /\ next_sync_id <= MaxSyncId
    /\ prev' = prep
    /\ prep' = [fn |-> "prepare_buffer_release", usage |-> usage,
                op |-> prepare_buffer_release(b, usage)]
    /\ push_buffer_release_task(b)
    /\ UNCHANGED <<last_submitted, last_completed, terminated, pending, batch, inflight,
                   to_free, mem, lease, waiting, transfer, last_call,
                   budget, held, n_issued, n_consumed, exec_upto, last_to, rel_seq,
                   returned, unblocked, flushed, at_terminate, queue_family, pool,
                   stagingVars, log, pipelineVars>>

call_prepare_buffer_release(b, usage) ==
    PrepareCall("prepare_buffer_release", usage, prepare_buffer_release(b, usage))

call_prepare_image_acquire(i, usage) ==
    PrepareCall("prepare_image_acquire", usage, prepare_image_acquire(i, usage))

call_prepare_image_release(i, usage) ==
    PrepareCall("prepare_image_release", usage, prepare_image_release(i, usage))

\* The unwrap in BufferAcquireOp::make_barrier / BufferReleaseOp::make_barrier
\* panics: a queue family pair is there and the masks are not.
make_barrier_panics(p) ==
    CASE p.fn = "prepare_buffer_acquire" ->
            p.op.queue_info # OptNone /\ p.op.src_info = OptNone
      [] p.fn = "prepare_buffer_release" ->
            p.op.queue_info # OptNone /\ p.op.dst_info = OptNone
      [] OTHER -> FALSE

\* The barrier a prepare_* call produced for its caller, and the barrier the
\* engine derives from a buffer op for its own submission.
CallerBarrier(p) ==
    CASE p.fn = "prepare_buffer_acquire" -> BufferAcquireOp_make_barrier(p.op)
      [] p.fn = "prepare_buffer_release" -> BufferReleaseOp_make_barrier(p.op)
      [] OTHER -> get_barrier(p.op)

EngineBarrier(p) ==
    CASE p.fn = "prepare_buffer_acquire" ->
            BufferAcquireOp_make_transfer_barrier(p.op, "TRANSFER", TransferAccess)
      [] p.fn = "prepare_buffer_release" ->
            BufferReleaseOp_make_transfer_barrier(p.op, "TRANSFER", TransferAccess)
      [] OTHER -> OptNone

(***************************************************************************)
(* Staging leases (mod.rs, request_staging_memory and impl StagingMemory). *)
(***************************************************************************)
\* Share::allocate_staging hands out a fresh memory id.
allocate_staging(m) == lease[m] = "unused"

request_staging_memory(m) ==
    /\ Alive
    /\ allocate_staging(m)
    /\ lease' = [lease EXCEPT ![m] = "live"]
    /\ UNCHANGED <<shareVars, workerVars, mem, waiting, transfer, last_call, historyVars, log, pipelineVars>>

\* Mutant of copy_to_buffer: source and destination of the transfer swapped.
copy_to_buffer_swapped(m, b) ==
    /\ Alive /\ CanPush
    /\ lease[m] = "live"
    /\ push_task(BufferTransferTask(DevName(b), MemName(m)))
    /\ n_issued' = n_issued + 1
    /\ last_to' = [last_to EXCEPT ![b] = n_issued + 1]
    /\ UNCHANGED <<next_sync_id, last_submitted, last_completed, terminated, pending,
                   batch, inflight, to_free, mem, lease, waiting, transfer, last_call,
                   held, n_consumed, exec_upto, rel_seq, returned, unblocked,
                   flushed, at_terminate, budget, prepVars, pool, stagingVars, log, pipelineVars>>

copy_to_buffer(m, b) ==
    /\ Alive /\ CanPush
    /\ lease[m] = "live"
    /\ push_task(BufferTransferTask(MemName(m), DevName(b)))
    /\ n_issued' = n_issued + 1
    /\ last_to' = [last_to EXCEPT ![b] = n_issued + 1]
    /\ UNCHANGED <<next_sync_id, last_submitted, last_completed, terminated, pending,
                   batch, inflight, to_free, mem, lease, waiting, transfer, last_call,
                   held, n_consumed, exec_upto, rel_seq, returned, unblocked,
                   flushed, at_terminate, budget, prepVars, pool, stagingVars, log, pipelineVars>>

copy_from_buffer(m, b) ==
    /\ Alive /\ CanPush
    /\ lease[m] = "live"
    /\ push_task(BufferTransferTask(DevName(b), MemName(m)))
    /\ n_issued' = n_issued + 1
    /\ UNCHANGED <<next_sync_id, last_submitted, last_completed, terminated, pending,
                   batch, inflight, to_free, mem, lease, waiting, transfer, last_call,
                   held, n_consumed, exec_upto, last_to, rel_seq, returned, unblocked,
                   flushed, at_terminate, budget, prepVars, pool, stagingVars, log, pipelineVars>>

\* Mutant of StagingMemory_drop: the lease ends without its StagingRelease.
StagingMemory_drop_unpushed(m) ==
    /\ Alive /\ CanPush
    /\ lease[m] = "live"
    /\ n_issued' = n_issued + 1
    /\ lease' = [lease EXCEPT ![m] = "dropped"]
    /\ UNCHANGED <<shareVars, workerVars, mem, waiting, transfer, last_call,
                   held, n_consumed, exec_upto, last_to, rel_seq, returned, unblocked,
                   flushed, at_terminate, budget, prepVars, pool, stagingVars, log, pipelineVars>>

\* Mutant of StagingMemory_drop: the drop hands the range straight back to
\* the allocator instead of queueing the StagingRelease.
StagingMemory_drop_frees(m) ==
    /\ Alive /\ CanPush
    /\ lease[m] = "live"
    /\ n_issued' = n_issued + 1
    /\ lease' = [lease EXCEPT ![m] = "freed"]
    /\ UNCHANGED <<shareVars, workerVars, mem, waiting, transfer, last_call,
                   held, n_consumed, exec_upto, last_to, rel_seq, returned, unblocked,
                   flushed, at_terminate, budget, prepVars, pool, stagingVars, log, pipelineVars>>

\* Mutant of StagingMemory_drop: the StagingRelease is put at the head of the queue.
StagingMemory_drop_first(m) ==
    /\ Alive /\ CanPush
    /\ lease[m] = "live"
    /\ queue' = <<StagingReleaseTask(m)>> \o queue
    /\ wpc' = Notified
    /\ n_issued' = n_issued + 1
    /\ lease' = [lease EXCEPT ![m] = "dropped"]
    /\ UNCHANGED <<next_sync_id, last_submitted, last_completed, terminated, pending,
                   batch, inflight, to_free, mem, waiting, transfer, last_call,
                   held, n_consumed, exec_upto, last_to, rel_seq, returned, unblocked,
                   flushed, at_terminate, budget, prepVars, pool, stagingVars, log, pipelineVars>>

\* impl Drop for StagingMemory
StagingMemory_drop(m) ==
    /\ Alive /\ CanPush
    /\ lease[m] = "live"
    /\ push_task(StagingReleaseTask(m))
    /\ n_issued' = n_issued + 1
    /\ lease' = [lease EXCEPT ![m] = "dropped"]
    /\ UNCHANGED <<next_sync_id, last_submitted, last_completed, terminated, pending,
                   batch, inflight, to_free, mem, waiting, transfer, last_call,
                   held, n_consumed, exec_upto, last_to, rel_seq, returned, unblocked,
                   flushed, at_terminate, budget, prepVars, pool, stagingVars, log, pipelineVars>>

(***************************************************************************)
(* Staging leases with their byte ranges.  The allocator (sub-module       *)
(* allocator, design document section 4.3) hands out ranges of blocks of   *)
(* its backing buffer; request_staging_memory builds the lease over the    *)
(* allocation it is given: buffer_offset is the allocation's offset, the   *)
(* mapped slice has the allocation's size.                                 *)
(***************************************************************************)
\* The blocks the allocator holds for an allocation and the blocks the
\* lease built over it reaches.
AllocRange(a) == pool[a].alloc_offset .. (pool[a].alloc_offset + pool[a].alloc_size - 1)
LeaseRange(a) == pool[a].buffer_offset .. (pool[a].buffer_offset + pool[a].len - 1)

\* The allocator still holds a range until the StagingRelease of its lease
\* has been carried out.
InUse(a) == pool[a].state \in {"live", "released"}

\* allocate: a range of at least `capacity` blocks inside the backing
\* buffer, none of which belongs to an allocation in use.
allocator_allocate(capacity, offset, size) ==
    /\ size >= capacity
    /\ offset \in Blocks /\ offset + size <= MaxPool
    /\ \A x \in PoolIds : InUse(x) => AllocRange(x) \cap (offset .. (offset + size - 1)) = {}

\* Mutant of request_staging_range: the mapped slice is one block shorter
\* than the allocation.
request_staging_range_short(a, capacity, offset, size) ==
    /\ Alive
    /\ pool[a].state = "unused"
    /\ allocator_allocate(capacity, offset, size)
    /\ pool' = [pool EXCEPT ![a] = [state |-> "live", capacity |-> capacity,
                                    alloc_offset |-> offset, alloc_size |-> size,
                                    buffer_offset |-> offset, len |-> size - 1]]
    /\ UNCHANGED <<shareVars, workerVars, mem, lease, waiting, transfer, last_call,
                   budget, held, n_issued, n_consumed, exec_upto, last_to, rel_seq,
                   returned, unblocked, flushed, at_terminate, prepVars, stagingVars, log, pipelineVars>>

\* Mutant of request_staging_range: the mapped slice is one block longer
\* than the allocation.
request_staging_range_long(a, capacity, offset, size) ==
    /\ Alive
    /\ pool[a].state = "unused"
    /\ allocator_allocate(capacity, offset, size)
    /\ pool' = [pool EXCEPT ![a] = [state |-> "live", capacity |-> capacity,
                                    alloc_offset |-> offset, alloc_size |-> size,
                                    buffer_offset |-> offset, len |-> size + 1]]
    /\ UNCHANGED <<shareVars, workerVars, mem, lease, waiting, transfer, last_call,
                   budget, held, n_issued, n_consumed, exec_upto, last_to, rel_seq,
                   returned, unblocked, flushed, at_terminate, prepVars, stagingVars, log, pipelineVars>>

\* Transfer::request_staging_memory, with the range of the lease.
request_staging_range(a, capacity, offset, size) ==
    /\ Alive
    /\ pool[a].state = "unused"
    /\ allocator_allocate(capacity, offset, size)
    /\ pool' = [pool EXCEPT ![a] = [state |-> "live", capacity |-> capacity,
                                    alloc_offset |-> offset, alloc_size |-> size,
                                    buffer_offset |-> offset, len |-> size]]
    /\ UNCHANGED <<shareVars, workerVars, mem, lease, waiting, transfer, last_call,
                   budget, held, n_issued, n_consumed, exec_upto, last_to, rel_seq,
                   returned, unblocked, flushed, at_terminate, prepVars, stagingVars, log, pipelineVars>>

\* impl Drop for StagingMemory: the lease ends, its StagingRelease is on its
\* way to the worker.
drop_staging_range(a) ==
    /\ pool[a].state = "live"
    /\ pool' = [pool EXCEPT ![a].state = "released"]
    /\ UNCHANGED <<shareVars, workerVars, mem, lease, waiting, transfer, last_call,
                   budget, held, n_issued, n_consumed, exec_upto, last_to, rel_seq,
                   returned, unblocked, flushed, at_terminate, prepVars, stagingVars, log, pipelineVars>>

\* The worker carries out the StagingRelease: the range is free again.
free_staging_range(a) ==
    /\ pool[a].state = "released"
    /\ pool' = [pool EXCEPT ![a].state = "freed"]
    /\ UNCHANGED <<shareVars, workerVars, mem, lease, waiting, transfer, last_call,
                   budget, held, n_issued, n_consumed, exec_upto, last_to, rel_seq,
                   returned, unblocked, flushed, at_terminate, prepVars, stagingVars, log, pipelineVars>>

(***************************************************************************)
(* The bytes of a lease (mod.rs, impl StagingMemory, write / write_offset  *)
(* and read / read_offset).  A slice of T is the sequence of its elements, *)
(* each element the sequence of its bytes.  A call ends in one of three    *)
(* ways: the value it returns, or a panic, which leaves the memory as it   *)
(* was.                                                                    *)
(***************************************************************************)
\* What a call returned: Some(n) or None of write_offset, Ok or Err of
\* read_offset, or "panic".
Returned(tag, n) == [tag |-> tag, n |-> n]
Panic == Returned("panic", 0)

\* The bytes of a slice, element after element (slice::from_raw_parts over
\* data.as_ptr() as *const u8).
RECURSIVE as_bytes(_)
as_bytes(data) == IF data = <<>> THEN <<>> ELSE Head(data) \o as_bytes(Tail(data))

\* The elements of type T that a sequence of bytes holds.
from_bytes(bs, T) ==
    [i \in 1 .. (Len(bs) \div size_of(T)) |->
        SubSeq(bs, (i - 1) * size_of(T) + 1, i * size_of(T))]

\* The mapped slice of a lease: `len` bytes of the backing buffer from
\* buffer_offset on.
memory_of(a) ==
    SubSeq(bytes[Backing], pool[a].buffer_offset + 1, pool[a].buffer_offset + pool[a].len)

\* The backing buffer with the mapped slice of lease a replaced.
with_memory(a, memory) ==
    [k \in DOMAIN bytes[Backing] |->
        IF k - 1 \in LeaseRange(a) THEN memory[k - pool[a].buffer_offset]
        ELSE bytes[Backing][k]]

\* x + y on usize: with overflow checks (a debug build) an overflow panics,
\* without them (a release build) the sum wraps.
usize_overflows(x, y) == x + y >= UsizeModulus
usize_add(x, y) == (x + y) % UsizeModulus

\* slice[start..end] panics unless start <= end <= len.
slice_index_ok(len, start, end) == start <= end /\ end <= len

\* StagingMemory::write_offset on the mapped slice `memory`: the result
\* returned and the mapped slice afterwards.
write_offset(memory, T, data, offset, overflow_checks) ==
    LET byte_count == Len(data) * size_of(T)
        sum == usize_add(offset, byte_count)
        src == as_bytes(data)
        failed == [result |-> Panic, memory |-> memory]
    IN  IF usize_overflows(offset, byte_count) /\ overflow_checks THEN failed
        ELSE IF sum > Len(memory) THEN [result |-> Returned("None", 0), memory |-> memory]
        \* dst = &mut self.memory[offset..byte_count]
        ELSE IF ~slice_index_ok(Len(memory), offset, byte_count) THEN failed
        \* dst.copy_from_slice(src) panics unless both have the same length
        ELSE IF byte_count - offset # Len(src) THEN failed
        ELSE [result |-> Returned("Some", byte_count),
              memory |-> SubSeq(memory, 1, offset) \o src
                            \o SubSeq(memory, byte_count + 1, Len(memory))]

\* StagingMemory::read_offset: the result returned and the slice `data`
\* afterwards.
read_offset(memory, T, data, offset, overflow_checks) ==
    LET byte_count == Len(data) * size_of(T)
        sum == usize_add(offset, byte_count)
        failed == [result |-> Panic, data |-> data]
    IN  IF usize_overflows(offset, byte_count) /\ overflow_checks THEN failed
        ELSE IF sum > Len(memory) THEN [result |-> Returned("Err", 0), data |-> data]
        \* src = &self.memory[offset..byte_count]
        ELSE IF ~slice_index_ok(Len(memory), offset, byte_count) THEN failed
        \* dst.copy_from_slice(src) panics unless both have the same length
        ELSE IF byte_count - offset # byte_count THEN failed
        ELSE [result |-> Returned("Ok", 0),
              data |-> from_bytes(SubSeq(memory, offset + 1, byte_count), T)]

\* Whether a wait_for_complete has returned for a SyncId that a release
\* issued after the task `seq` returned.
Completed(seq) ==
    seq > 0 /\ \E id \in RawIds : id <= unblocked.complete /\ rel_seq[id] > seq

\* The record of a call on lease a; covered tells whether the copy into the
\* lease issued last had been waited for when the call was made.
StagingCall(fn, a, T, data, offset, result, after, out) ==
    [fn |-> fn, lease |-> a, T |-> T, data |-> data, offset |-> offset,
     before |-> memory_of(a), after |-> after, out |-> out, result |-> result,
     covered |-> Completed(rt.from_seq), ranges |-> NoRanges, task |-> OptNone]

StagingMemory_write_offset(a, T, data, offset) ==
    /\ pool[a].state = "live"
    /\ \E overflow_checks \in BOOLEAN :
        LET r == write_offset(memory_of(a), T, data, offset, overflow_checks)
        IN  /\ bytes' = [bytes EXCEPT ![Backing] = with_memory(a, r.memory)]
            /\ scall' = StagingCall("write_offset", a, T, data, offset, r.result,
                                    r.memory, data)
    /\ UNCHANGED <<shareVars, workerVars, mem, lease, waiting, transfer, last_call,
                   budget, held, n_issued, n_consumed, exec_upto, last_to, rel_seq,
                   returned, unblocked, flushed, at_terminate, prepVars, pool, rt, log, pipelineVars>>

\* StagingMemory::write
StagingMemory_write(a, T, data) == StagingMemory_write_offset(a, T, data, 0)

StagingMemory_read_offset(a, T, data, offset) ==
    /\ pool[a].state = "live"
    /\ \E overflow_checks \in BOOLEAN :
        LET r == read_offset(memory_of(a), T, data, offset, overflow_checks)
        IN  scall' = StagingCall("read_offset", a, T, data, offset, r.result,
                                 memory_of(a), r.data)
    /\ UNCHANGED <<shareVars, workerVars, mem, lease, waiting, transfer, last_call,
                   budget, held, n_issued, n_consumed, exec_upto, last_to, rel_seq,
                   returned, unblocked, flushed, at_terminate, prepVars, pool, bytes, rt, log, pipelineVars>>

\* StagingMemory::read
StagingMemory_read(a, T, data) == StagingMemory_read_offset(a, T, data, 0)

(***************************************************************************)
(* The copies of a lease with their ranges (mod.rs, StagingMemory::copy_*, *)
(* BufferTransferRanges, BufferImageTransferRanges).  The caller gives the *)
(* ranges relative to the lease; the task carries them relative to the     *)
(* backing buffer.                                                         *)
(***************************************************************************)
BufferTransferRange(src_offset, dst_offset, size) ==
    [src_offset |-> src_offset, dst_offset |-> dst_offset, size |-> size]

\* BufferTransferRanges::new_single
new_single(src_offset, dst_offset, size) ==
    One(BufferTransferRange(src_offset, dst_offset, size))

BufferTransferRanges_add_src_offset(ranges, src_offset) ==
    CASE ranges.variant = "One" ->
            One([ranges.ranges[1] EXCEPT !.src_offset = @ + src_offset])
      [] ranges.variant = "Multiple" ->
            Multiple([k \in DOMAIN ranges.ranges |->
                        [ranges.ranges[k] EXCEPT !.src_offset = @ + src_offset]])

\* Mutant of BufferTransferRanges_add_dst_offset: of a list of ranges only
\* the first is moved.
BufferTransferRanges_add_dst_offset_first(ranges, dst_offset) ==
    [variant |-> ranges.variant,
     ranges |-> [k \in DOMAIN ranges.ranges |->
                    IF k = 1 THEN [ranges.ranges[k] EXCEPT !.dst_offset = @ + dst_offset]
                    ELSE ranges.ranges[k]]]

BufferTransferRanges_add_dst_offset(ranges, dst_offset) ==
    CASE ranges.variant = "One" ->
            One([ranges.ranges[1] EXCEPT !.dst_offset = @ + dst_offset])
      [] ranges.variant = "Multiple" ->
            Multiple([k \in DOMAIN ranges.ranges |->
                        [ranges.ranges[k] EXCEPT !.dst_offset = @ + dst_offset]])

\* BufferImageTransferRange: the place of the texels in the buffer and the
\* part of the image they go to.
BufferImageTransferRange(buffer_offset, buffer_row_length, buffer_image_height, image_aspect_mask, image_mip_level, image_base_array_layer, image_layer_count, image_offset, image_extent) ==
    [buffer_offset |-> buffer_offset, buffer_row_length |-> buffer_row_length,
     buffer_image_height |-> buffer_image_height,
     image_aspect_mask |-> image_aspect_mask, image_mip_level |-> image_mip_level,
     image_base_array_layer |-> image_base_array_layer,
     image_layer_count |-> image_layer_count, image_offset |-> image_offset,
     image_extent |-> image_extent]

BufferImageTransferRanges_add_buffer_offset(ranges, buffer_offset) ==
    CASE ranges.variant = "One" ->
            One([ranges.ranges[1] EXCEPT !.buffer_offset = @ + buffer_offset])
      [] ranges.variant = "Multiple" ->
            Multiple([k \in DOMAIN ranges.ranges |->
                        [ranges.ranges[k] EXCEPT !.buffer_offset = @ + buffer_offset]])

\* Task::BufferTransfer(BufferTransfer { src_buffer, dst_buffer, ranges })
BufferTransfer(src_buffer, dst_buffer, ranges) ==
    [BufferTransferTask(src_buffer, dst_buffer) EXCEPT !.ranges = ranges]

\* Task::BufferToImageTransfer(BufferToImageTransfer { src_buffer, dst_image, ranges })
BufferToImageTransfer(src_buffer, dst_image, ranges) ==
    [Task("BufferToImageTransfer", dst_image, src_buffer, NoBuf, 0) EXCEPT !.ranges = ranges]

\* The record of a copy_* call on lease a: the ranges the caller gave and the
\* task pushed.
CopyCall(fn, a, ranges, task) ==
    [NoStagingCall EXCEPT !.fn = fn, !.lease = a, !.ranges = ranges, !.task = Some(task)]

\* The bytes the most recent call left in lease a, if that call was a write.
Written(a) ==
    IF scall.fn = "write_offset" /\ scall.lease = a /\ scall.result.tag = "Some"
    THEN Some(as_bytes(scall.data)) ELSE OptNone

\* StagingMemory::copy_to_buffer
StagingMemory_copy_to_buffer(a, dst_buffer, ranges) ==
    /\ Alive /\ CanPush
    /\ pool[a].state = "live"
    /\ LET task == BufferTransfer(MemName(a), DevName(dst_buffer),
                      BufferTransferRanges_add_src_offset(ranges, pool[a].buffer_offset))
       IN  /\ push_task(task)
           /\ scall' = CopyCall("copy_to_buffer", a, ranges, task)
    /\ n_issued' = n_issued + 1
    /\ last_to' = [last_to EXCEPT ![dst_buffer] = n_issued + 1]
    /\ rt' = [rt EXCEPT !.wrote = Written(a), !.to_seq = n_issued + 1]
    /\ UNCHANGED <<next_sync_id, last_submitted, last_completed, terminated, pending,
                   batch, inflight, to_free, mem, lease, waiting, transfer, last_call,
                   held, n_consumed, exec_upto, rel_seq, returned, unblocked,
                   flushed, at_terminate, budget, prepVars, pool, bytes, log, pipelineVars>>

\* Mutant of StagingMemory_copy_from_buffer: the ranges go into the task as
\* the caller gave them.
StagingMemory_copy_from_buffer_unbiased(a, src_buffer, ranges) ==
    /\ Alive /\ CanPush
    /\ pool[a].state = "live"
    /\ LET task == BufferTransfer(DevName(src_buffer), MemName(a), ranges)
       IN  /\ push_task(task)
           /\ scall' = CopyCall("copy_from_buffer", a, ranges, task)
    /\ n_issued' = n_issued + 1
    /\ rt' = [rt EXCEPT !.from_seq = n_issued + 1, !.waited = Completed(rt.to_seq)]
    /\ UNCHANGED <<next_sync_id, last_submitted, last_completed, terminated, pending,
                   batch, inflight, to_free, mem, lease, waiting, transfer, last_call,
                   held, n_consumed, exec_upto, last_to, rel_seq, returned, unblocked,
                   flushed, at_terminate, budget, prepVars, pool, bytes, log, pipelineVars>>

\* StagingMemory::copy_from_buffer
StagingMemory_copy_from_buffer(a, src_buffer, ranges) ==
    /\ Alive /\ CanPush
    /\ pool[a].state = "live"
    /\ LET task == BufferTransfer(DevName(src_buffer), MemName(a),
                      BufferTransferRanges_add_dst_offset(ranges, pool[a].buffer_offset))
       IN  /\ push_task(task)
           /\ scall' = CopyCall("copy_from_buffer", a, ranges, task)
    /\ n_issued' = n_issued + 1
    /\ rt' = [rt EXCEPT !.from_seq = n_issued + 1, !.waited = Completed(rt.to_seq)]
    /\ UNCHANGED <<next_sync_id, last_submitted, last_completed, terminated, pending,
                   batch, inflight, to_free, mem, lease, waiting, transfer, last_call,
                   held, n_consumed, exec_upto, last_to, rel_seq, returned, unblocked,
                   flushed, at_terminate, budget, prepVars, pool, bytes, log, pipelineVars>>

\* StagingMemory::copy_to_image
StagingMemory_copy_to_image(a, dst_image, ranges) ==
    /\ Alive /\ CanPush
    /\ pool[a].state = "live"
    /\ LET task == BufferToImageTransfer(MemName(a), dst_image,
                      BufferImageTransferRanges_add_buffer_offset(ranges,
                                                                  pool[a].buffer_offset))
       IN  /\ push_task(task)
           /\ scall' = CopyCall("copy_to_image", a, ranges, task)
    /\ n_issued' = n_issued + 1
    /\ UNCHANGED <<next_sync_id, last_submitted, last_completed, terminated, pending,
                   batch, inflight, to_free, mem, lease, waiting, transfer, last_call,
                   held, n_consumed, exec_upto, last_to, rel_seq, returned, unblocked,
                   flushed, at_terminate, budget, prepVars, pool, bytes, rt, log, pipelineVars>>

(***************************************************************************)
(* impl Drop for Transfer: terminate, then join the worker.  The borrow    *)
(* rules let the drop start only when no thread is inside a call on the    *)
(* Transfer and no StagingMemory (which borrows it) is alive.              *)
(***************************************************************************)
\* Mutant of Transfer_drop_terminate: the drop joins without terminate().
Transfer_drop_joins_only ==
    /\ transfer = "alive"
    /\ waiting = {}
    /\ \A m \in LeaseIds : lease[m] # "live"
    /\ transfer' = "joining"
    /\ at_terminate' = n_issued - n_consumed
    /\ UNCHANGED <<shareVars, workerVars, mem, lease, waiting, last_call, held, n_issued,
                   n_consumed, exec_upto, last_to, rel_seq, returned, unblocked, flushed,
                   budget, prepVars, pool, stagingVars, log, pipelineVars>>

\* Mutant of Transfer_drop_terminate: the drop sets the flag but wakes nobody.
Transfer_drop_flag_only ==
    /\ transfer = "alive"
    /\ waiting = {}
    /\ \A m \in LeaseIds : lease[m] # "live"
    /\ terminated' = TRUE
    /\ transfer' = "joining"
    /\ at_terminate' = n_issued - n_consumed
    /\ UNCHANGED <<queue, next_sync_id, last_submitted, last_completed, workerVars, mem,
                   lease, waiting, last_call, held, n_issued, n_consumed, exec_upto,
                   last_to, rel_seq, returned, unblocked, flushed, budget, prepVars, pool,
                   stagingVars, log, pipelineVars>>

Transfer_drop_terminate ==
    /\ transfer = "alive"
    /\ waiting = {}
    /\ \A m \in LeaseIds : lease[m] # "live"
    /\ share_terminate
    /\ transfer' = "joining"
    /\ at_terminate' = n_issued - n_consumed
    /\ UNCHANGED <<queue, next_sync_id, last_submitted, last_completed, pending, batch,
                   inflight, to_free, mem, lease, waiting, last_call, held, n_issued,
                   n_consumed, exec_upto, last_to, rel_seq, returned, unblocked, flushed,
                   budget, prepVars, pool, stagingVars, log, pipelineVars>>

\* Mutant of Transfer_drop_join: the Err of the join is dropped unseen.
Transfer_drop_join_silent ==
    /\ transfer = "joining"
    /\ wpc \in {"done", "panicked"}
    /\ transfer' = "dropped"
    /\ UNCHANGED <<shareVars, workerVars, mem, lease, waiting, last_call, historyVars, log, pipelineVars>>

\* worker.join() returns when the worker thread has ended: Ok if it left its
\* loop, Err if it panicked, which is logged and goes no further.
Transfer_drop_join ==
    /\ transfer = "joining"
    /\ wpc \in {"done", "panicked"}
    /\ transfer' = "dropped"
    /\ log' = IF wpc = "panicked" THEN Append(log, WorkerPanicked) ELSE log
    /\ UNCHANGED <<shareVars, workerVars, mem, lease, waiting, last_call, historyVars,
                   pipelineVars>>

(***************************************************************************)
(* The worker thread (run_worker; design document, section 4.2).           *)
(***************************************************************************)
RECURSIVE MaxReleaseId(_)
\* The largest SyncId among the release tasks of a batch, 0 if it has none.
MaxReleaseId(tasks) ==
    IF tasks = <<>> THEN 0
    ELSE Max(IF IsRelease(Head(tasks)) THEN Head(tasks).id ELSE 0, MaxReleaseId(Tail(tasks)))

\* Under the mutex: wait on the condition variable while the queue is empty
\* and the flag is not set; leave the loop when it is empty and the flag is
\* set; otherwise drain all queued tasks.
worker_check ==
    /\ wpc = "check"
    /\ IF queue # <<>>
       THEN /\ pending' = queue
            /\ queue' = <<>>
            /\ wpc' = "record"
       ELSE /\ wpc' = IF terminated THEN "done" ELSE "blocked"
            /\ UNCHANGED <<pending, queue>>
    /\ UNCHANGED <<next_sync_id, last_submitted, last_completed, terminated, batch,
                   inflight, to_free, mem, lease, waiting, transfer, last_call,
                   historyVars, log, pipelineVars>>

\* The position of the first Flush among the drained tasks, 0 if there is none.
RECURSIVE FirstFlush(_)
FirstFlush(tasks) ==
    IF tasks = <<>> THEN 0
    ELSE IF Head(tasks).kind = "Flush" THEN 1
    ELSE IF FirstFlush(Tail(tasks)) = 0 THEN 0
    ELSE 1 + FirstFlush(Tail(tasks))

\* Translating tasks into command-buffer work: every task but StagingRelease
\* is recorded into the open batch ...
RECURSIVE Recorded(_)
Recorded(tasks) ==
    IF tasks = <<>> THEN <<>>
    ELSE IF Head(tasks).kind = "StagingRelease" THEN Recorded(Tail(tasks))
    ELSE <<Head(tasks)>> \o Recorded(Tail(tasks))

\* ... and a StagingRelease marks its range to go back to the allocator at
\* the next completion.
RECURSIVE Released(_)
Released(tasks) ==
    IF tasks = <<>> THEN {}
    ELSE IF Head(tasks).kind = "StagingRelease"
         THEN {Head(tasks).src[2]} \cup Released(Tail(tasks))
    ELSE Released(Tail(tasks))

\* No Flush among the drained tasks: record them all, then back to the queue.
worker_record ==
    /\ wpc = "record"
    /\ FirstFlush(pending) = 0
    /\ batch' = batch \o Recorded(pending)
    /\ to_free' = to_free \cup Released(pending)
    /\ n_consumed' = n_consumed + Len(pending)
    /\ pending' = <<>>
    /\ wpc' = "check"
    /\ UNCHANGED <<shareVars, inflight, mem, lease, waiting, transfer, last_call, held,
                   n_issued, exec_upto, last_to, rel_seq, returned, unblocked,
                   flushed, at_terminate, budget, prepVars, pool, stagingVars, log, pipelineVars>>

\* Mutant of worker_submit: the submission is not published.
worker_submit_unpublished ==
    /\ wpc = "record"
    /\ FirstFlush(pending) > 0
    /\ LET k == FirstFlush(pending)
           before == SubSeq(pending, 1, k - 1)
           closed == batch \o Recorded(before)
       IN /\ inflight' = [tasks |-> closed, signalled |-> FALSE]
          /\ to_free' = to_free \cup Released(before)
          /\ last_submitted' = last_submitted
          /\ n_consumed' = n_consumed + k
          /\ pending' = SubSeq(pending, k + 1, Len(pending))
    /\ batch' = <<>>
    /\ wpc' = "fence"
    /\ UNCHANGED <<queue, next_sync_id, last_completed, terminated, mem, lease,
                   waiting, transfer, last_call, held, n_issued, exec_upto, last_to,
                   rel_seq, returned, unblocked, flushed, at_terminate, budget, prepVars,
                   pool, stagingVars, log, pipelineVars>>

\* Mutant of worker_submit: the counter is overwritten with the batch's id.
worker_submit_overwrite ==
    /\ wpc = "record"
    /\ FirstFlush(pending) > 0
    /\ LET k == FirstFlush(pending)
           before == SubSeq(pending, 1, k - 1)
           closed == batch \o Recorded(before)
       IN /\ inflight' = [tasks |-> closed, signalled |-> FALSE]
          /\ to_free' = to_free \cup Released(before)
          /\ last_submitted' = MaxReleaseId(closed)
          /\ n_consumed' = n_consumed + k
          /\ pending' = SubSeq(pending, k + 1, Len(pending))
    /\ batch' = <<>>
    /\ wpc' = "fence"
    /\ UNCHANGED <<queue, next_sync_id, last_completed, terminated, mem, lease,
                   waiting, transfer, last_call, held, n_issued, exec_upto, last_to,
                   rel_seq, returned, unblocked, flushed, at_terminate, budget, prepVars,
                   pool, stagingVars, log, pipelineVars>>

\* Flush: record the tasks before it, close the batch, submit it as one
\* submission, publish the submit progress and signal the waiters.
worker_submit ==
    /\ wpc = "record"
    /\ FirstFlush(pending) > 0
    /\ LET k == FirstFlush(pending)
           before == SubSeq(pending, 1, k - 1)
           closed == batch \o Recorded(before)
       IN /\ inflight' = [tasks |-> closed, signalled |-> FALSE]
          /\ to_free' = to_free \cup Released(before)
          /\ last_submitted' = Max(last_submitted, MaxReleaseId(closed))
          /\ n_consumed' = n_consumed + k
          /\ pending' = SubSeq(pending, k + 1, Len(pending))
    /\ batch' = <<>>
    /\ wpc' = "fence"
    /\ UNCHANGED <<queue, next_sync_id, last_completed, terminated, mem, lease,
                   waiting, transfer, last_call, held, n_issued, exec_upto, last_to,
                   rel_seq, returned, unblocked, flushed, at_terminate, budget, prepVars,
                   pool, stagingVars, log, pipelineVars>>

\* Once the fence of the submission is signalled: publish the completion
\* progress, signal the waiters and return the released staging ranges.
worker_complete ==
    /\ wpc = "fence" /\ inflight.signalled
    /\ last_completed' = Max(last_completed, MaxReleaseId(inflight.tasks))
    /\ lease' = [m \in LeaseIds |-> IF m \in to_free THEN "freed" ELSE lease[m]]
    /\ to_free' = {}
    /\ inflight' = [tasks |-> <<>>, signalled |-> FALSE]
    /\ wpc' = "record"
    /\ UNCHANGED <<queue, next_sync_id, last_submitted, terminated, pending, batch, mem,
                   waiting, transfer, last_call, historyVars, log, pipelineVars>>

(***************************************************************************)
(* The device executes a submission: its copies in recording order.        *)
(***************************************************************************)
RECURSIVE Execute(_, _)
Execute(tasks, m) ==
    IF tasks = <<>> THEN m
    ELSE LET task == Head(tasks)
             data == IF task.src[1] = "staging" THEN task.seq ELSE m[task.src].data
         IN Execute(Tail(tasks),
                    IF task.kind = "BufferTransfer"
                    THEN [m EXCEPT ![task.dst] =
                             Cell(data, IF task.src[1] = "staging" THEN task.seq
                                        ELSE task.expect)]
                    ELSE m)

\* The buffer a BufferId names: the backing buffer for the memory id of a
\* lease, the device buffer itself otherwise.
BufferOf(id) == IF id[1] = "staging" THEN Backing ELSE id[2]

\* One region of a buffer copy: `size` bytes from src_offset of src to
\* dst_offset of dst.
CopyRegion(bs, src, dst, r) ==
    [bs EXCEPT ![dst] = [k \in DOMAIN bs[dst] |->
        IF k - 1 \in r.dst_offset .. (r.dst_offset + r.size - 1)
        THEN bs[src][k - r.dst_offset + r.src_offset]
        ELSE bs[dst][k]]]

RECURSIVE CopyRegions(_, _, _, _)
CopyRegions(bs, src, dst, ranges) ==
    IF ranges = <<>> THEN bs
    ELSE CopyRegions(CopyRegion(bs, src, dst, Head(ranges)), src, dst, Tail(ranges))

\* The bytes of the buffers after the copies of a submission.
RECURSIVE ExecuteBytes(_, _)
ExecuteBytes(tasks, bs) ==
    IF tasks = <<>> THEN bs
    ELSE LET task == Head(tasks)
         IN ExecuteBytes(Tail(tasks),
                         IF task.kind = "BufferTransfer"
                         THEN CopyRegions(bs, BufferOf(task.src), BufferOf(task.dst),
                                          as_slice(task.ranges))
                         ELSE bs)

device_execute ==
    /\ wpc = "fence" /\ ~inflight.signalled
    /\ mem' = Execute(inflight.tasks, mem)
    /\ bytes' = ExecuteBytes(inflight.tasks, bytes)
    /\ exec_upto' = IF inflight.tasks = <<>> THEN exec_upto
                    ELSE inflight.tasks[Len(inflight.tasks)].seq
    /\ inflight' = [inflight EXCEPT !.signalled = TRUE]
    /\ UNCHANGED <<shareVars, wpc, pending, batch, to_free, lease, waiting, transfer,
                   last_call, held, n_issued, n_consumed, last_to, rel_seq, returned,
                   unblocked, flushed, at_terminate, budget, prepVars, pool, scall, rt, log, pipelineVars>>

\* The worker thread panics while it runs: the thread ends where it is.
worker_panic ==
    /\ wpc \in {"check", "record", "fence"}
    /\ wpc' = "panicked"
    /\ UNCHANGED <<shareVars, pending, batch, inflight, to_free, mem, lease, waiting,
                   transfer, last_call, historyVars, log, pipelineVars>>

Worker ==
    \/ worker_check
    \/ worker_record
    \/ worker_submit
    \/ worker_complete

Next ==
    \/ \E b \in Buffers : acquire_buffer(b)
    \/ \E i \in Images : make_image_available(i)
    \/ \E b \in Buffers : release_buffer(b)
    \/ \E i \in Images : release_image(i)
    \/ \E id \in RawIds : flush(from_raw(id))
    \/ \E id \in RawIds : wait_for_submit(from_raw(id))
    \/ \E id \in RawIds : wait_for_complete(from_raw(id))
    \/ \E id \in RawIds : wait_for_submit_returns(from_raw(id))
    \/ \E id \in RawIds : wait_for_complete_returns(from_raw(id))
    \/ \E m \in LeaseIds : request_staging_memory(m)
    \/ \E m \in LeaseIds, b \in Buffers : copy_to_buffer(m, b)
    \/ \E m \in LeaseIds, b \in Buffers : copy_from_buffer(m, b)
    \/ \E m \in LeaseIds : StagingMemory_drop(m)
    \/ Transfer_drop_terminate
    \/ Transfer_drop_join
    \/ Worker
    \/ device_execute

Spec == Init /\ [][Next]_vars

(***************************************************************************)
(* Scheduling: the worker is a thread of its own and keeps running; the    *)
(* device finishes every submission; a caller whose wait may return does   *)
(* return; a join returns once the worker has exited.                      *)
(***************************************************************************)
Fairness ==
    /\ WF_vars(Worker)
    /\ WF_vars(device_execute)
    /\ \A id \in RawIds : WF_vars(wait_for_submit_returns(id))
    /\ \A id \in RawIds : WF_vars(wait_for_complete_returns(id))
    /\ WF_vars(Transfer_drop_join)

FairSpec == Init /\ [][Next]_vars /\ Fairness

(***************************************************************************)
(* The upload / download scenario of tests::test_buffer_copy: acquire,     *)
(* copies through staging leases, release, flush, wait_for_complete.       *)
(***************************************************************************)
InitCopy == Start /\ budget = MaxTasks + 1 /\ queue_family = 0

NextCopy ==
    \/ \E b \in Buffers : acquire_buffer(b)
    \/ \E m \in LeaseIds : request_staging_memory(m)
    \/ \E m \in LeaseIds, b \in Buffers : copy_to_buffer(m, b)
    \/ \E m \in LeaseIds, b \in Buffers : copy_from_buffer(m, b)
    \/ \E b \in Buffers : release_buffer(b)
    \/ \E id \in RawIds : flush(from_raw(id))
    \/ \E id \in RawIds : wait_for_complete(from_raw(id))
    \/ \E id \in RawIds : wait_for_complete_returns(from_raw(id))
    \/ Worker
    \/ device_execute

CopySpec == InitCopy /\ [][NextCopy]_vars

(***************************************************************************)
(* Requests and drops of staging leases by several threads, the worker     *)
(* freeing the released ranges.                                            *)
(***************************************************************************)
InitAlloc == Start /\ budget = 0 /\ queue_family = 0

NextAlloc ==
    \/ \E a \in PoolIds, capacity \in Capacities, offset \in Blocks,
          size \in 1 .. MaxPool : request_staging_range(a, capacity, offset, size)
    \/ \E a \in PoolIds : drop_staging_range(a)
    \/ \E a \in PoolIds : free_staging_range(a)

AllocSpec == InitAlloc /\ [][NextAlloc]_vars

(***************************************************************************)
(* The prepare_* functions on their own: an engine on any queue family,    *)
(* callers passing any usage.                                              *)
(***************************************************************************)
InitPrepare == Start /\ budget = 0 /\ queue_family \in Families

NextPrepare ==
    \/ \E b \in Buffers, usage \in BufferUsages : call_prepare_buffer_acquire(b, usage)
    \/ \E b \in Buffers, usage \in BufferUsages : call_prepare_buffer_release(b, usage)
    \/ \E i \in Images, usage \in ImageUsages : call_prepare_image_acquire(i, usage)
    \/ \E i \in Images, usage \in ImageUsages : call_prepare_image_release(i, usage)

PrepareSpec == InitPrepare /\ [][NextPrepare]_vars

(***************************************************************************)
(* prepare_* calls between the operations of a running engine.  The usages *)
(* are one sample per kind: absent, and present with a foreign family.     *)
(***************************************************************************)
SampleBufferUsages == {OptNone, Some(<<"FRAGMENT_SHADER", "SHADER_READ", 1>>)}
SampleImageUsages ==
    {OptNone, Some(<<"FRAGMENT_SHADER", "SHADER_READ", 1, "SHADER_READ_ONLY_OPTIMAL">>)}

InitFrame == Start /\ budget = MaxTasks - 1 /\ queue_family = 0

NextFrame ==
    \/ \E b \in Buffers, usage \in SampleBufferUsages : call_prepare_buffer_acquire(b, usage)
    \/ \E b \in Buffers, usage \in SampleBufferUsages : call_prepare_buffer_release(b, usage)
    \/ \E i \in Images, usage \in SampleImageUsages : call_prepare_image_acquire(i, usage)
    \/ \E i \in Images, usage \in SampleImageUsages : call_prepare_image_release(i, usage)
    \/ \E b \in Buffers : acquire_buffer(b)
    \/ \E b \in Buffers : release_buffer(b)
    \/ \E id \in RawIds : flush(from_raw(id))
    \/ Worker
    \/ device_execute

FrameSpec == InitFrame /\ [][NextFrame]_vars

(***************************************************************************)
(* Writes and reads of one staging lease, at any offset, of slices of any  *)
(* length, in a debug or a release build.                                  *)
(***************************************************************************)
InitStaging == Start /\ budget = 0 /\ queue_family = 0

NextStaging ==
    \/ \E capacity \in Capacities, offset \in Blocks, size \in 1 .. MaxPool :
          request_staging_range("a1", capacity, offset, size)
    \/ \E T \in ElemTypes, offset \in Offsets : \E data \in Slices(T) :
          StagingMemory_write_offset("a1", T, data, offset)
    \/ \E T \in ElemTypes, offset \in Offsets : \E data \in Slices(T) :
          StagingMemory_read_offset("a1", T, data, offset)

StagingSpec == InitStaging /\ [][NextStaging]_vars

(***************************************************************************)
(* Copies between a lease anywhere in the backing buffer and a buffer or   *)
(* an image, with one range or a list of ranges.                           *)
(***************************************************************************)
SampleRanges == {BufferTransferRange(s, d, 1) : s \in {0, 1}, d \in {0, 1}}
SampleImageRanges ==
    {BufferImageTransferRange(o, 0, 0, "COLOR", 0, 0, 1, <<0, 0, 0>>, e) :
        o \in {0, 1}, e \in {<<1, 1, 1>>, <<2, 1, 1>>}}
RangesOf(S) == {One(r) : r \in S} \cup {Multiple(l) : l \in UNION {[1 .. n -> S] : n \in 0 .. 2}}

InitRange == Start /\ budget = MaxTasks - 2 /\ queue_family = 0

NextRange ==
    \/ \E capacity \in Capacities, offset \in Blocks, size \in 1 .. MaxPool :
          request_staging_range("a1", capacity, offset, size)
    \/ \E b \in Buffers, ranges \in RangesOf(SampleRanges) :
          StagingMemory_copy_to_buffer("a1", b, ranges)
    \/ \E b \in Buffers, ranges \in RangesOf(SampleRanges) :
          StagingMemory_copy_from_buffer("a1", b, ranges)
    \/ \E i \in Images, ranges \in RangesOf(SampleImageRanges) :
          StagingMemory_copy_to_image("a1", i, ranges)

RangeSpec == InitRange /\ [][NextRange]_vars

(***************************************************************************)
(* The round trip of tests::test_buffer_copy with the bytes: a write into  *)
(* one lease, copy_to_buffer, copy_from_buffer into a second lease and a   *)
(* read, with release, flush and wait_for_complete wherever the caller     *)
(* puts them.                                                              *)
(***************************************************************************)
InitRoundTrip == Start /\ budget = MaxTasks + 1 /\ queue_family = 0

\* The range of the round trip: the bytes written, from the start of the
\* lease to the start of the buffer and back.
SameRange == new_single(0, 0, Len(rt.wrote[1]))

NextRoundTrip ==
    \/ \E capacity \in Capacities, offset \in Blocks :
          request_staging_range("a1", capacity, offset, capacity)
    \/ \E capacity \in Capacities, offset \in Blocks :
          /\ pool["a1"].state = "live"
          /\ request_staging_range("a2", capacity, offset, capacity)
    \/ \E data \in Slices("u8") \ {<<>>} :
          /\ pool["a2"].state = "live" /\ scall.fn = "none"
          /\ StagingMemory_write("a1", "u8", data)
    \/ \E b \in Buffers :
          /\ rt.to_seq = 0 /\ Written("a1") # OptNone
          /\ StagingMemory_copy_to_buffer("a1", b, new_single(0, 0, scall.result.n))
    \/ \E b \in Buffers :
          /\ rt.to_seq > 0 /\ rt.from_seq = 0
          /\ Len(rt.wrote[1]) <= pool["a2"].len
          /\ StagingMemory_copy_from_buffer("a2", b, SameRange)
    \/ \E b \in Buffers : rt.to_seq > 0 /\ release_buffer(b)
    \/ \E id \in RawIds : id < next_sync_id /\ flush(from_raw(id))
    \/ \E id \in RawIds : id < next_sync_id /\ wait_for_complete(from_raw(id))
    \/ \E id \in RawIds : wait_for_complete_returns(from_raw(id))
    \/ \E data \in Slices("u8") :
          /\ rt.from_seq > 0 /\ scall.fn = "copy_from_buffer"
          /\ Len(data) = Len(rt.wrote[1])
          /\ StagingMemory_read("a2", "u8", data)
    \/ Worker
    \/ device_execute

RoundTripSpec == InitRoundTrip /\ [][NextRoundTrip]_vars

(***************************************************************************)
(* The engine with a worker that may panic at any point of its loop.       *)
(***************************************************************************)
InitPanic == Start /\ budget = MaxTasks - 1 /\ queue_family = 0

NextPanic == Next \/ worker_panic

PanicSpec == InitPanic /\ [][NextPanic]_vars

(***************************************************************************)
(* Every operation a producer can call, next to the worker: the operations *)
(* of the engine and the prepare_* functions.                              *)
(***************************************************************************)
InitOps == Start /\ budget = MaxTasks - 1 /\ queue_family = 0

NextOps ==
    \/ Next
    \/ \E b \in Buffers : call_prepare_buffer_acquire(b, OptNone)
    \/ \E b \in Buffers : call_prepare_buffer_release(b, OptNone)
    \/ \E i \in Images : call_prepare_image_acquire(i, OptNone)
    \/ \E i \in Images : call_prepare_image_release(i, OptNone)

OpsSpec == InitOps /\ [][NextOps]_vars


(***************************************************************************)
(* The acquire / release contract.                                         *)
(***************************************************************************)
\* C1: release_buffer / release_image of a resource that is not acquired
\* (never acquired, or released since its last acquire) returns
\* Err(NotAvailable).
C1_ReleaseOfUnacquiredFails ==
    (last_call.op \in {"release_buffer", "release_image"} /\ ~last_call.was_held)
        => last_call.result = "NotAvailable"

\* C2: acquire_buffer / make_image_available of a resource that is already
\* acquired returns Err(AlreadyAvailable), so every resource is acquired at
\* most once.
C2_SecondAcquireFails ==
    /\ (last_call.op \in {"acquire_buffer", "make_image_available"} /\ last_call.was_held)
        => last_call.result = "AlreadyAvailable"
    /\ \A r \in Buffers \cup Images : held[r] <= 1

(***************************************************************************)
(* The task queue.                                                         *)
(***************************************************************************)
Ascending(tasks) ==
    \A i, j \in 1 .. Len(tasks) : i < j => tasks[i].seq < tasks[j].seq

\* C3: the worker consumes the tasks in the order they were enqueued, each
\* exactly once: the tasks not yet taken are exactly the issued tasks
\* n_consumed + 1 .. n_issued, in that order, and the tasks the worker holds
\* are in issue order before them.
C3_FifoExactlyOnce ==
    LET rest == pending \o queue
    IN /\ Len(rest) = n_issued - n_consumed
       /\ \A k \in 1 .. Len(rest) : rest[k].seq = n_consumed + k
       /\ Ascending(inflight.tasks \o batch \o rest)

\* The worker has taken tasks of an earlier drain, holds a drained task and
\* a producer has pushed another one meanwhile.
C3_Witness == n_consumed >= 1 /\ pending # <<>> /\ queue # <<>>

(***************************************************************************)
(* Progress counters and waits.                                            *)
(***************************************************************************)
\* C4: wait_for_submit(id) returns only in a state where last_submitted >= id
\* and wait_for_complete(id) only in a state where last_completed >= id.
C4_WaitReturnsOnlyWhenReached ==
    [][\A id \in RawIds :
          /\ (Wait("submit", id) \in waiting /\ Wait("submit", id) \notin waiting')
                => last_submitted >= id
          /\ (Wait("complete", id) \in waiting /\ Wait("complete", id) \notin waiting')
                => last_completed >= id]_vars

\* Both kinds of wait have returned.
C4_Witness == unblocked.submit >= 1 /\ unblocked.complete >= 1

\* The recorded tasks the device has not executed yet.
Unexecuted ==
    (IF inflight.signalled THEN <<>> ELSE inflight.tasks)
        \o batch \o Recorded(pending \o queue)

\* C5: when wait_for_complete(id) has returned for an id release_* returned,
\* every task enqueued before that release has been executed, in enqueue
\* order, and every copy out of a device buffer has observed the data of the
\* last copy_to_buffer enqueued before it.
C5_CompleteImpliesExecutedInOrder ==
    \A id \in RawIds :
        (id <= unblocked.complete /\ rel_seq[id] > 0) =>
            /\ \A k \in 1 .. Len(Unexecuted) :
                  /\ Unexecuted[k].seq > rel_seq[id]
                  /\ Unexecuted[k].seq > exec_upto
            /\ exec_upto >= rel_seq[id]
            /\ \A m \in LeaseIds : mem[MemName(m)].data = mem[MemName(m)].expect

\* wait_for_complete has returned and a copy_from_buffer has brought the
\* data of a copy_to_buffer back into a lease.
C5_Witness ==
    /\ unblocked.complete >= 1
    /\ \E m \in LeaseIds : mem[MemName(m)].data > 0

C7_SmallerIdUnblocksFirst ==
    /\ \A v, w \in waiting :
          (v.kind = "submit" /\ w.kind = "submit" /\ v.id < w.id /\ submit_reached(w.id))
              => submit_reached(v.id)
    /\ \A v \in waiting :
          (v.kind = "submit" /\ v.id < unblocked.submit) => submit_reached(v.id)

\* wait_for_submit(2) has returned while a caller is in wait_for_submit(1).
C7_Witness == unblocked.submit = 2 /\ Wait("submit", 1) \in waiting

\* C8: the SyncIds release_buffer and release_image return are strictly
\* increasing in enqueue order, so none is returned twice.
C8_SyncIdsStrictlyIncreasing ==
    /\ \A i, j \in 1 .. Len(returned) : i < j => returned[i] < returned[j]
    /\ \A id \in RawIds : rel_seq[id] > 0 => \E i \in 1 .. Len(returned) : returned[i] = id

\* A buffer release and an image release have both returned an id.
C8_Witness ==
    /\ Len(returned) >= 2
    /\ last_call.op = "release_image"


(***************************************************************************)
(* Progress and teardown.                                                  *)
(***************************************************************************)
\* C9: once flush(id) is enqueued for an id release_* returned, the worker
\* eventually submits (last_submitted >= id) and, the device completing
\* every submission, last_completed reaches id; callers blocked in
\* wait_for_submit(id) and wait_for_complete(id) eventually return.
C9_FlushedIdIsReached ==
    \A id \in RawIds :
        /\ (id \in flushed) ~> (last_submitted >= id)
        /\ (id \in flushed) ~> (last_completed >= id)
        /\ (id \in flushed /\ Wait("submit", id) \in waiting)
              ~> (Wait("submit", id) \notin waiting)
        /\ (id \in flushed /\ Wait("complete", id) \in waiting)
              ~> (Wait("complete", id) \notin waiting)

\* A flushed id has been completed and both kinds of wait have returned for it.
C9_Witness ==
    /\ 1 \in flushed /\ last_completed >= 1
    /\ unblocked.submit >= 1 /\ unblocked.complete >= 1

\* C10: after terminate() the worker handles every task enqueued before the
\* call and only then leaves its loop, and it does leave it.
C10_TerminateDrainsThenExits ==
    /\ [](wpc = "done" =>
            /\ terminated
            /\ queue = <<>> /\ pending = <<>>
            /\ n_consumed = n_issued)
    /\ (transfer = "joining") ~> (wpc = "done")

\* The worker has exited after a terminate() that found tasks unprocessed.
C10_Witness == wpc = "done" /\ at_terminate >= 2 /\ n_consumed = n_issued

\* C11: dropping a Transfer always completes: terminate() is signalled
\* before the join, so the join never waits on a worker that is blocked on
\* the condition variable, whatever the queue held and wherever the worker
\* was when the drop began.
C11_DropCompletes ==
    /\ [](transfer = "joining" => (terminated /\ wpc # "blocked"))
    /\ (transfer = "joining") ~> (transfer = "dropped")

\* A drop has completed that began with nothing left for the worker to do.
C11_Witness == transfer = "dropped" /\ at_terminate = 0 /\ n_issued >= 1

(***************************************************************************)
(* Staging leases.                                                         *)
(***************************************************************************)
\* The StagingRelease tasks of lease m the worker has not handled yet, and
\* whether it has handled one that waits for the next completion.
QueuedReleases(m) ==
    LET rest == pending \o queue
    IN Cardinality({k \in 1 .. Len(rest) :
                       rest[k].kind = "StagingRelease" /\ rest[k].src = MemName(m)})
       + (IF m \in to_free THEN 1 ELSE 0)

\* C18: every lease enqueues exactly one StagingRelease with its memory id,
\* at the moment it is destroyed: a lease ends only by the step that appends
\* that task, a destroyed lease has exactly one such task on its way to the
\* allocator until the range is freed, and no other lease has any.
C18_OneStagingReleasePerLease ==
    /\ [](\A m \in LeaseIds :
            QueuedReleases(m) = (IF lease[m] = "dropped" THEN 1 ELSE 0))
    /\ [][\A m \in LeaseIds :
            /\ (lease[m] = "live" /\ lease'[m] # "live") =>
                  /\ lease'[m] = "dropped"
                  /\ Len(queue') = Len(queue) + 1
                  /\ SubSeq(queue', 1, Len(queue)) = queue
                  /\ queue'[Len(queue')].kind = "StagingRelease"
                  /\ queue'[Len(queue')].src = MemName(m)
            /\ (lease[m] # "freed" /\ lease'[m] = "freed") => lease[m] = "dropped"]_vars

\* A lease was destroyed after a copy; its StagingRelease is queued behind
\* the copy and the worker has not taken it yet.
C18_Witness ==
    \E m \in LeaseIds :
        /\ lease[m] = "dropped" /\ m \notin to_free
        /\ \E k \in 1 .. Len(queue) :
              queue[k].kind = "BufferTransfer" /\ queue[k].src = MemName(m)

\* C19: the range of a lease goes back to the allocator only after every
\* transfer task that uses the lease has completed on the device: no copy
\* from or to a freed lease is queued, recorded or in flight.
C19_FreedOnlyAfterLastUse ==
    \A m \in LeaseIds :
        lease[m] = "freed" =>
            \A k \in 1 .. Len(Unexecuted) :
                Unexecuted[k].src # MemName(m) /\ Unexecuted[k].dst # MemName(m)

\* A lease has been freed after the device executed a copy out of it.
C19_Witness ==
    \E m \in LeaseIds, b \in Buffers :
        lease[m] = "freed" /\ mem[DevName(b)].data > 0

\* C20: the byte ranges of any two live leases are disjoint, and each lies
\* inside the backing buffer, for any interleaving of requests, drops and
\* frees.
C20_LiveLeasesDisjoint ==
    \A a, b \in PoolIds :
        (a # b /\ pool[a].state = "live" /\ pool[b].state = "live") =>
            /\ LeaseRange(a) \cap LeaseRange(b) = {}
            /\ LeaseRange(a) \subseteq Blocks

\* Two leases are live side by side, one of them over blocks that a lease
\* freed earlier had held.
C20_Witness ==
    \E a, b, c \in PoolIds :
        /\ a # b /\ pool[a].state = "live" /\ pool[b].state = "live"
        /\ pool[c].state = "freed" /\ LeaseRange(c) \cap LeaseRange(a) # {}

(***************************************************************************)
(* The ownership transfer protocol.                                        *)
(***************************************************************************)
\* What the caller passed in a usage that is present.
UsageFamily(p) == p.usage[1][3]
UsageLayout(p) == p.usage[1][4]
IsImageCall(p) == p.fn \in {"prepare_image_acquire", "prepare_image_release"}
IsAcquireCall(p) == p.fn \in {"prepare_buffer_acquire", "prepare_image_acquire"}
Called(p) == p.fn # "none"

\* C12 as stated: with a usage whose queue family equals the transfer queue
\* family, no prepare_* function produces a barrier for the caller, for
\* every stage mask, access mask and image layout.
C12_EqualFamilyNoBarrier ==
    (Called(prep) /\ prep.usage # OptNone /\ UsageFamily(prep) = queue_family)
        => CallerBarrier(prep) = OptNone

\* C12 amended: with a usage whose queue family equals the transfer queue
\* family no barrier is produced for the caller, except by
\* prepare_image_acquire for a layout other than UNDEFINED and GENERAL: it
\* produces the layout transition to GENERAL, whose source and destination
\* queue family are both the transfer queue family.
C12_EqualFamilyNoCrossQueueBarrier ==
    (Called(prep) /\ prep.usage # OptNone /\ UsageFamily(prep) = queue_family) =>
        IF prep.fn = "prepare_image_acquire" /\ UsageLayout(prep) \notin {"UNDEFINED", "GENERAL"}
        THEN /\ CallerBarrier(prep) # OptNone
             /\ CallerBarrier(prep)[1].src_queue_family_index = queue_family
             /\ CallerBarrier(prep)[1].dst_queue_family_index = queue_family
             /\ CallerBarrier(prep)[1].old_layout = UsageLayout(prep)
             /\ CallerBarrier(prep)[1].new_layout = "GENERAL"
        ELSE CallerBarrier(prep) = OptNone

\* A buffer release and then an image acquire in a foreign layout, both with
\* the transfer queue's own family (family 2).
C12_Witness ==
    /\ queue_family = 2
    /\ prev.fn = "prepare_buffer_release" /\ prev.usage # OptNone
    /\ UsageFamily(prev) = queue_family /\ CallerBarrier(prev) = OptNone
    /\ prep.fn = "prepare_image_acquire" /\ prep.usage # OptNone
    /\ UsageFamily(prep) = queue_family /\ UsageLayout(prep) = "TRANSFER_DST_OPTIMAL"

\* C13 as stated: with a usage whose queue family differs from the transfer
\* queue family, every prepare_* function produces a barrier, for every
\* stage mask, access mask and image layout, with the families (supplied,
\* transfer) for an acquire and (transfer, supplied) for a release.
C13_ForeignFamilyAlwaysBarrier ==
    (Called(prep) /\ prep.usage # OptNone /\ UsageFamily(prep) # queue_family) =>
        /\ CallerBarrier(prep) # OptNone
        /\ CallerBarrier(prep)[1].src_queue_family_index =
              (IF IsAcquireCall(prep) THEN UsageFamily(prep) ELSE queue_family)
        /\ CallerBarrier(prep)[1].dst_queue_family_index =
              (IF IsAcquireCall(prep) THEN queue_family ELSE UsageFamily(prep))

\* C13 amended: with a foreign family the buffer functions always produce a
\* barrier, and the image functions do for every layout but UNDEFINED, for
\* which they produce none; the families of a barrier are (supplied,
\* transfer) for an acquire and (transfer, supplied) for a release.
C13_ForeignFamilyBarrierUnlessUndefined ==
    (Called(prep) /\ prep.usage # OptNone /\ UsageFamily(prep) # queue_family) =>
        IF IsImageCall(prep) /\ UsageLayout(prep) = "UNDEFINED"
        THEN CallerBarrier(prep) = OptNone
        ELSE /\ CallerBarrier(prep) # OptNone
             /\ CallerBarrier(prep)[1].src_queue_family_index =
                   (IF IsAcquireCall(prep) THEN UsageFamily(prep) ELSE queue_family)
             /\ CallerBarrier(prep)[1].dst_queue_family_index =
                   (IF IsAcquireCall(prep) THEN queue_family ELSE UsageFamily(prep))

\* An image release towards family 2 by an engine on family 1, after a
\* buffer acquire from family 0.
C13_Witness ==
    /\ queue_family = 1
    /\ prev.fn = "prepare_buffer_acquire" /\ prev.usage # OptNone /\ UsageFamily(prev) = 0
    /\ prep.fn = "prepare_image_release" /\ prep.usage # OptNone /\ UsageFamily(prep) = 2
    /\ UsageLayout(prep) = "SHADER_READ_ONLY_OPTIMAL"
    /\ CallerBarrier(prep) # OptNone

\* C14: with an absent usage no barrier is generated: for a buffer neither
\* the caller's barrier nor the engine's transfer barrier, for an image no
\* barrier and the local layout UNDEFINED.
C14_AbsentUsageNoBarrier ==
    (Called(prep) /\ prep.usage = OptNone) =>
        /\ CallerBarrier(prep) = OptNone
        /\ IF IsImageCall(prep) THEN prep.op.local_layout = "UNDEFINED"
           ELSE EngineBarrier(prep) = OptNone

\* A buffer and an image function have both been called without usage.
C14_Witness ==
    /\ prev.fn = "prepare_buffer_acquire" /\ prev.usage = OptNone
    /\ prep.fn = "prepare_image_release" /\ prep.usage = OptNone

\* C15: a prepare_* call leaves the task queue, the SyncId counter, the
\* progress counters and the availability of the resources unchanged, and
\* two calls with the same arguments return equal ops.
C15_PrepareIsPure ==
    /\ [][(prep' # prep \/ prev' # prev) =>
            UNCHANGED <<queue, next_sync_id, last_submitted, last_completed, held>>]_vars
    /\ []((prev.fn = prep.fn /\ prev.usage = prep.usage) => prev.op = prep.op)

\* The same call made twice on an engine with a task queued and a SyncId minted.
C15_Witness ==
    /\ Called(prep) /\ prev.fn = prep.fn /\ prev.usage = prep.usage
    /\ queue # <<>> /\ next_sync_id >= 2

\* C16: prepare_image_acquire leaves the image in GENERAL, any barrier
\* going from the usage layout to GENERAL, except when the usage is absent
\* or its layout UNDEFINED: then there is no barrier and the local layout is
\* UNDEFINED.  The local layout is never another one.
C16_AcquireLayoutIsGeneral ==
    prep.fn = "prepare_image_acquire" =>
        /\ prep.op.local_layout \in {"GENERAL", "UNDEFINED"}
        /\ IF prep.usage = OptNone \/ UsageLayout(prep) = "UNDEFINED"
           THEN get_barrier(prep.op) = OptNone /\ prep.op.local_layout = "UNDEFINED"
           ELSE /\ prep.op.local_layout = "GENERAL"
                /\ get_barrier(prep.op) # OptNone =>
                      /\ get_barrier(prep.op)[1].old_layout = UsageLayout(prep)
                      /\ get_barrier(prep.op)[1].new_layout = "GENERAL"

\* An acquire from UNDEFINED, then an acquire from a foreign layout with its barrier.
C16_Witness ==
    /\ prev.fn = "prepare_image_acquire" /\ prev.usage # OptNone
    /\ UsageLayout(prev) = "UNDEFINED"
    /\ prep.fn = "prepare_image_acquire" /\ prep.usage # OptNone
    /\ UsageLayout(prep) = "SHADER_READ_ONLY_OPTIMAL" /\ get_barrier(prep.op) # OptNone

\* C17: prepare_image_release towards a layout L other than UNDEFINED moves
\* the image from GENERAL to L by exactly one means: a barrier from GENERAL
\* to L with the local layout GENERAL (families differ), or no barrier and
\* the local layout L (families equal).
C17_ReleaseLayoutByOneMeans ==
    (prep.fn = "prepare_image_release" /\ prep.usage # OptNone
        /\ UsageLayout(prep) # "UNDEFINED") =>
        IF UsageFamily(prep) # queue_family
        THEN /\ get_barrier(prep.op) # OptNone
             /\ get_barrier(prep.op)[1].old_layout = "GENERAL"
             /\ get_barrier(prep.op)[1].new_layout = UsageLayout(prep)
             /\ prep.op.local_layout = "GENERAL"
        ELSE /\ get_barrier(prep.op) = OptNone
             /\ prep.op.local_layout = UsageLayout(prep)

\* A release within the transfer family, then one towards a foreign family.
C17_Witness ==
    /\ prev.fn = "prepare_image_release" /\ prev.usage # OptNone
    /\ UsageLayout(prev) = "TRANSFER_DST_OPTIMAL" /\ UsageFamily(prev) = queue_family
    /\ prep.fn = "prepare_image_release" /\ prep.usage # OptNone
    /\ UsageLayout(prep) = "SHADER_READ_ONLY_OPTIMAL" /\ UsageFamily(prep) # queue_family

(***************************************************************************)
(* The bytes of a staging lease.                                           *)
(***************************************************************************)
\* The number of bytes of the slice of the most recent write or read.
ByteCount == Len(scall.data) * size_of(scall.T)
\* The most recent call fits the lease: offset + n <= L.
Fits == scall.offset + ByteCount <= Len(scall.before)

\* C21: write_offset(data, offset) with offset + n <= L copies the n bytes of
\* data into the lease bytes [offset, offset + n), leaves the other bytes of
\* the lease unchanged and returns Some(n), for every offset >= 0.
C21_WriteOffsetCopiesAtOffset ==
    (scall.fn = "write_offset" /\ Fits) =>
        /\ scall.result = Returned("Some", ByteCount)
        /\ scall.after = SubSeq(scall.before, 1, scall.offset) \o as_bytes(scall.data)
                            \o SubSeq(scall.before, scall.offset + ByteCount + 1,
                                      Len(scall.before))

\* C22: a write or read whose offset + size exceeds the length of the lease
\* returns did-not-fit (None of a write, Err of a read) without failing, and
\* leaves the bytes of the lease and of the destination slice unchanged.
C22_DidNotFitIsReturned ==
    (scall.fn \in {"write_offset", "read_offset"} /\ ~Fits) =>
        /\ scall.result =
              Returned(IF scall.fn = "write_offset" THEN "None" ELSE "Err", 0)
        /\ scall.after = scall.before
        /\ scall.out = scall.data

\* C23: read_offset(data, offset) with offset + n <= L copies the lease bytes
\* [offset, offset + n) into data and returns Ok, for every offset >= 0.
C23_ReadOffsetCopiesFromOffset ==
    (scall.fn = "read_offset" /\ Fits) =>
        /\ scall.result = Returned("Ok", 0)
        /\ as_bytes(scall.out) =
              SubSeq(scall.before, scall.offset + 1, scall.offset + ByteCount)
        /\ scall.after = scall.before

\* The field of a range that lies on the staging side of each copy.
StagingSide(fn) ==
    CASE fn = "copy_to_buffer" -> "src_offset"
      [] fn = "copy_from_buffer" -> "dst_offset"
      [] fn = "copy_to_image" -> "buffer_offset"

\* C25: the task a copy_to_buffer, copy_from_buffer or copy_to_image pushes
\* carries the ranges of the caller, the single one or each one of a list,
\* with the staging-side offset increased by the buffer_offset of the lease
\* and every other field as the caller gave it.
C25_CopiesBiasStagingSide ==
    scall.fn \in {"copy_to_buffer", "copy_from_buffer", "copy_to_image"} =>
        LET task == scall.task[1]
            given == scall.ranges
        IN  /\ \E i \in DOMAIN queue : queue[i] = task
            /\ task.ranges.variant = given.variant
            /\ Len(as_slice(task.ranges)) = Len(as_slice(given))
            /\ \A k \in DOMAIN as_slice(given) :
                  as_slice(task.ranges)[k] =
                     [as_slice(given)[k] EXCEPT ![StagingSide(scall.fn)] =
                         @ + pool[scall.lease].buffer_offset]

C25_Witness ==
    /\ scall.fn = "copy_from_buffer"
    /\ scall.ranges.variant = "Multiple" /\ Len(as_slice(scall.ranges)) = 2
    /\ pool[scall.lease].buffer_offset > 0
    /\ queue # <<>>

\* The most recent call read back, into the second lease, the range that a
\* copy_to_buffer and then a copy_from_buffer were issued for.
ReadBack ==
    /\ scall.fn = "read_offset" /\ scall.result.tag = "Ok"
    /\ rt.wrote # OptNone
    /\ 0 < rt.to_seq /\ rt.to_seq < rt.from_seq

\* C24: write, copy_to_buffer, flush, wait_for_complete, copy_from_buffer of
\* the same range into a second lease and read: the bytes read are the bytes
\* written.
C24_RoundTripAsWritten ==
    (ReadBack /\ rt.waited) => as_bytes(scall.out) = rt.wrote[1]

\* C24, amended: the bytes read are the bytes written when the read comes
\* after a wait_for_complete for a release issued after the copy_from_buffer.
C24_RoundTripAfterCompletion ==
    (ReadBack /\ scall.covered) => as_bytes(scall.out) = rt.wrote[1]

C24_Witness ==
    /\ ReadBack /\ scall.covered
    /\ Len(rt.wrote[1]) = 2
    /\ pool["a2"].buffer_offset > 0
    /\ as_bytes(scall.out) # as_bytes(scall.data)

\* C26: the lease that request_staging_memory(capacity) returns has a
\* mapped slice of at least capacity bytes, whatever was requested and
\* released before.
C26_LeaseHoldsCapacity ==
    \A a \in PoolIds : pool[a].state # "unused" => pool[a].len >= pool[a].capacity

C26_Witness ==
    \E a, x \in PoolIds :
        /\ pool[a].state = "live" /\ pool[a].capacity = 2 /\ pool[a].len = 2
        /\ pool[x].state = "freed" /\ AllocRange(x) \cap AllocRange(a) # {}

(***************************************************************************)
(* Who waits for whom.                                                     *)
(***************************************************************************)
\* A caller is blocked in a wait that the counters do not let through yet.
Blocked ==
    \E w \in waiting :
        IF w.kind = "submit" THEN ~submit_reached(w.id) ELSE ~complete_reached(w.id)

\* C27: while the engine is alive, every enqueue operation can be carried
\* out whatever the worker is doing and whoever is blocked in a wait: it
\* waits neither for the worker nor for the device.  (A release also needs a
\* SyncId left below the bound of the model.)
C27_EnqueueNeverWaits ==
    (Alive /\ CanPush) =>
        /\ \A b \in Buffers : ENABLED acquire_buffer(b)
        /\ \A i \in Images : ENABLED make_image_available(i)
        /\ \A id \in RawIds : ENABLED flush(from_raw(id))
        /\ next_sync_id <= MaxSyncId =>
              /\ \A b \in Buffers : ENABLED release_buffer(b)
              /\ \A i \in Images : ENABLED release_image(i)
        /\ \A m \in LeaseIds : lease[m] = "live" =>
              /\ \A b \in Buffers : ENABLED copy_to_buffer(m, b)
              /\ \A b \in Buffers : ENABLED copy_from_buffer(m, b)
              /\ ENABLED StagingMemory_drop(m)

C27_Witness ==
    /\ Alive /\ CanPush
    /\ wpc = "fence" /\ ~inflight.signalled
    /\ Blocked
    /\ \E m \in LeaseIds : lease[m] = "live"

\* C28: a panic of the worker shows nowhere until the Transfer is dropped;
\* the drop then logs the error of the join and returns; and after the
\* panic nothing takes up the tasks the worker left: its batch, the tasks it
\* had drained and the two counters stay as they were.
C28_PanicSurfacesAtDrop ==
    /\ [](log # <<>> => transfer = "dropped" /\ wpc = "panicked")
    /\ []((transfer = "dropped" /\ wpc = "panicked") => log = <<WorkerPanicked>>)
    /\ []((transfer = "joining" /\ wpc = "panicked") => ENABLED Transfer_drop_join)
    /\ [][wpc = "panicked" =>
            /\ wpc' = "panicked"
            /\ UNCHANGED <<pending, batch, inflight, to_free, last_submitted,
                           last_completed, n_consumed, exec_upto, mem, bytes>>]_vars

C28_Witness ==
    /\ transfer = "dropped" /\ wpc = "panicked"
    /\ log = <<WorkerPanicked>>
    /\ queue # <<>> /\ pending # <<>>

(***************************************************************************)
(* The progress counters.                                                  *)
(***************************************************************************)
\* C29: a step that changes the last-submitted or the last-completed
\* counter is a step of the worker, its submit or its completion; no
\* operation of a producer changes either.
C29_OnlyWorkerWritesCounters ==
    [][(last_submitted' # last_submitted \/ last_completed' # last_completed)
          => (worker_submit \/ worker_complete)]_vars

C29_Witness ==
    /\ last_submitted > 0 /\ last_completed > 0
    /\ prep.fn # "none"
    /\ waiting # {}

\* C30: the last-completed counter never passes the last-submitted counter.
C30_CompletedWithinSubmitted == last_completed <= last_submitted

C30_Witness ==
    /\ last_completed > 0 /\ last_completed = last_submitted
    /\ wpc = "fence"

(***************************************************************************)
(* Wake-ups of the worker: producers and the worker under fair scheduling, *)
(* with one push less than Spec so that the liveness check stays small.    *)
(***************************************************************************)
InitWake == Start /\ budget = MaxTasks - 1 /\ queue_family = 0

WakeSpec == InitWake /\ [][Next]_vars /\ Fairness

CopyNaming(task, m) ==
    /\ task.kind \in {"BufferTransfer", "BufferToImageTransfer"}
    /\ MemName(m) \in {task.src, task.dst}

TransferOf(barrier) ==
    <<barrier.buffer, barrier.offset, barrier.size,
      barrier.src_queue_family_index, barrier.dst_queue_family_index>>

IsBufferOp(p) == p.fn \in {"prepare_buffer_acquire", "prepare_buffer_release"}

\* C33: for every BufferAcquireOp and BufferReleaseOp that needs a queue
\* family transfer, make_barrier (the caller's half) and
\* make_transfer_barrier (the engine's half) both yield a barrier, and the
\* two name the same buffer, offset and size and the same (source,
\* destination) queue family pair, the pair of the op.
C33_BarrierHalvesMatch ==
    (IsBufferOp(prep) /\ prep.op.queue_info # OptNone) =>
        /\ CallerBarrier(prep) # OptNone /\ EngineBarrier(prep) # OptNone
        /\ TransferOf(CallerBarrier(prep)[1]) = TransferOf(EngineBarrier(prep)[1])
        /\ TransferOf(CallerBarrier(prep)[1]) =
              <<prep.op.buffer, prep.op.offset, prep.op.size,
                prep.op.queue_info[1][1], prep.op.queue_info[1][2]>>

\* A release op and, before it, an acquire op that both cross queue
\* families, each with its two barriers.
C33_Witness ==
    /\ prep.fn = "prepare_buffer_release" /\ prep.op.queue_info # OptNone
    /\ prev.fn = "prepare_buffer_acquire" /\ prev.op.queue_info # OptNone
    /\ EngineBarrier(prep) # OptNone /\ EngineBarrier(prev) # OptNone

\* C34: every BufferAcquireOp / BufferReleaseOp that prepare_buffer_acquire /
\* prepare_buffer_release builds has its masks (src_info / dst_info)
\* whenever it has a queue family pair, for any usage argument, so the
\* unwrap in make_barrier never panics.
C34_QueueInfoImpliesMasks ==
    IsBufferOp(prep) =>
        /\ prep.op.queue_info # OptNone =>
              (IF prep.fn = "prepare_buffer_acquire"
               THEN prep.op.src_info # OptNone ELSE prep.op.dst_info # OptNone)
        /\ ~make_barrier_panics(prep)

\* An acquire op with a queue family pair whose make_barrier returned the
\* barrier with the masks of the usage.
C34_Witness ==
    /\ prep.fn = "prepare_buffer_acquire" /\ prep.usage # OptNone
    /\ prep.op.queue_info # OptNone
    /\ ~make_barrier_panics(prep)
    /\ CallerBarrier(prep)[1].src_stage_mask = prep.usage[1][1]
    /\ CallerBarrier(prep)[1].src_access_mask = prep.usage[1][2]

(***************************************************************************)
(* The debug pipeline: starting and dropping passes.  Every access to      *)
(* next_index and to a ready flag is one SeqCst atomic operation, so each  *)
(* is a step of its own; threads interleave between them.                  *)
(***************************************************************************)
\* EmulatorPipeline::start_pass, entered by a thread that holds the pipeline.
start_pass(t) ==
    /\ pipeline_state = "alive"
    /\ tpc[t] = "idle"
    /\ Cardinality({u \in Threads : tpc[u] # "idle"}) + Len(handed) < MaxStarts
    /\ tpc' = [tpc EXCEPT ![t] = "load"]
    /\ UNCHANGED <<next_index, ready, destroyed, pipeline_state, drop_at, current, pass_index,
                   handed, shaderVars, drawVars, transferVars>>

\* get_next_index: let current = self.next_index.load(SeqCst)
get_next_index_load(t) ==
    /\ tpc[t] = "load"
    /\ current' = [current EXCEPT ![t] = next_index]
    /\ tpc' = [tpc EXCEPT ![t] = "cas"]
    /\ UNCHANGED <<next_index, ready, destroyed, pipeline_state, drop_at, pass_index,
                   handed, shaderVars, drawVars, transferVars>>

\* Mutant of get_next_index_cas: the counter is stored, not exchanged.
get_next_index_store(t) ==
    /\ tpc[t] = "cas"
    /\ next_index' = (current[t] + 1) % PassObjectCount
    /\ pass_index' = [pass_index EXCEPT ![t] = current[t]]
    /\ handed' = Append(handed, current[t])
    /\ tpc' = [tpc EXCEPT ![t] = "take"]
    /\ UNCHANGED <<ready, destroyed, pipeline_state, drop_at, current,
                   shaderVars, drawVars, transferVars>>

\* get_next_index: compare_exchange(current, (current + 1) % len); on
\* success current is returned, on failure the loop starts over.
get_next_index_cas(t) ==
    /\ tpc[t] = "cas"
    /\ IF next_index = current[t]
       THEN /\ next_index' = (current[t] + 1) % PassObjectCount
            /\ pass_index' = [pass_index EXCEPT ![t] = current[t]]
            /\ handed' = Append(handed, current[t])
            /\ tpc' = [tpc EXCEPT ![t] = "take"]
       ELSE /\ tpc' = [tpc EXCEPT ![t] = "load"]
            /\ UNCHANGED <<next_index, pass_index, handed>>
    /\ UNCHANGED <<ready, destroyed, pipeline_state, drop_at, current,
                   shaderVars, drawVars, transferVars>>

\* Mutant of wait_and_take: the pass object is taken whatever its flag says.
wait_and_take_unchecked(t) ==
    /\ tpc[t] = "take"
    /\ ready' = [ready EXCEPT ![pass_index[t]] = FALSE]
    /\ tpc' = [tpc EXCEPT ![t] = "pass"]
    /\ UNCHANGED <<next_index, destroyed, pipeline_state, drop_at, current, pass_index,
                   handed, shaderVars, drawVars, transferVars>>

\* PassObjects::wait_and_take, then DebugPipelinePass::new with the index:
\* the exchange of ready from true to false succeeds and the pass exists.
\* A failed exchange changes nothing and the thread tries again.
wait_and_take(t) ==
    /\ tpc[t] = "take"
    /\ ready[pass_index[t]]
    /\ ready' = [ready EXCEPT ![pass_index[t]] = FALSE]
    /\ tpc' = [tpc EXCEPT ![t] = "pass"]
    /\ UNCHANGED <<next_index, destroyed, pipeline_state, drop_at, current, pass_index,
                   handed, shaderVars, drawVars, transferVars>>

\* impl Drop for DebugPipelinePass
DebugPipelinePass_drop(t) ==
    /\ tpc[t] = "pass"
    /\ ready' = [ready EXCEPT ![pass_index[t]] = TRUE]
    /\ tpc' = [tpc EXCEPT ![t] = "idle"]
    /\ UNCHANGED <<next_index, destroyed, pipeline_state, drop_at, current, pass_index,
                   handed, shaderVars, drawVars, transferVars>>

\* impl Drop for DebugPipeline begins: the last Arc is gone, so no pass is
\* alive (a pass holds an Arc of its parent) and no thread is in start_pass.
DebugPipeline_drop ==
    /\ pipeline_state = "alive"
    /\ \A t \in Threads : tpc[t] = "idle"
    /\ pipeline_state' = "dropping"
    /\ drop_at' = 0
    /\ UNCHANGED <<next_index, ready, destroyed, tpc, current, pass_index,
                   handed, shaderVars, drawVars, transferVars>>

\* The calls of PassObjects::destroy, in its order.
DestroyCalls(i) ==
    << <<i, <<"all", "framebuffer">>>>,
       <<i, <<"depth", "sampler_view">>>>,
       <<i, <<"depth", "framebuffer_view">>>>,
       <<i, <<"depth", "image">>>>,
       <<i, <<"depth", "allocation">>>> >>

\* PassObjects::destroy for the pass object the loop of the drop is at.
PassObjects_destroy(i) ==
    /\ pipeline_state = "dropping"
    /\ drop_at = i
    /\ destroyed' = destroyed \o DestroyCalls(i)
    /\ drop_at' = i + 1
    /\ UNCHANGED <<next_index, ready, pipeline_state, tpc, current, pass_index,
                   handed, shaderVars, drawVars, transferVars>>

\* What dropping the pass objects frees: PassObjects has no Drop of its own,
\* image and view handles are plain values, and the colour and uv0
\* allocations still in their Option are dropped as Allocation values.  The
\* allocator is not part of these sources: a dropped Allocation either frees
\* its memory or it does not.
AllocationDrops(frees) ==
    IF frees
    THEN [k \in 1 .. 2 * PassObjectCount |->
            <<(k - 1) \div 2, <<IF k % 2 = 1 THEN "color" ELSE "uv0", "allocation">>>>]
    ELSE <<>>

\* The rest of Drop for DebugPipeline: the pass objects are dropped, the
\* shader pipelines cleared, the layouts, render pass and modules destroyed.
DebugPipeline_drop_finish ==
    /\ pipeline_state = "dropping"
    /\ drop_at = PassObjectCount
    /\ \E frees \in BOOLEAN : destroyed' = destroyed \o AllocationDrops(frees)
    /\ pipelines' = [s \in ShaderIds |-> OptNone]
    /\ pipeline_state' = "dropped"
    /\ UNCHANGED <<next_index, ready, drop_at, tpc, current, pass_index,
                   handed, shader_alive, in_use, removed, drawVars, transferVars>>

InitPass == Start /\ budget = 0 /\ queue_family = 0

NextPass ==
    \/ \E t \in Threads : start_pass(t)
    \/ \E t \in Threads : get_next_index_load(t)
    \/ \E t \in Threads : get_next_index_cas(t)
    \/ \E t \in Threads : wait_and_take(t)
    \/ \E t \in Threads : DebugPipelinePass_drop(t)
    \/ DebugPipeline_drop
    \/ \E i \in PassIndices : PassObjects_destroy(i)
    \/ DebugPipeline_drop_finish

PassSpec == InitPass /\ [][NextPass]_vars

\* The live passes on pass object i: the threads that hold one.
LivePasses(i) == {t \in Threads : tpc[t] = "pass" /\ pass_index[t] = i}

\* C35: at most one live DebugPipelinePass exists per pass object at any
\* time.  A pass for index i comes to exist only in the step that switches
\* ready[i] from true to false, ready[i] is false exactly while that pass
\* lives, and it becomes true again only in the step that drops the pass,
\* under any interleaving of start_pass calls and pass drops.
C35_OnePassPerObject ==
    /\ [](\A i \in PassIndices :
            /\ Cardinality(LivePasses(i)) <= 1
            /\ ready[i] = (LivePasses(i) = {}))
    /\ [][\A i \in PassIndices :
            /\ (LivePasses(i)' # LivePasses(i) /\ LivePasses(i)' # {})
                  => (ready[i] /\ ~ready'[i])
            /\ (~ready[i] /\ ready'[i])
                  => (LivePasses(i) # {} /\ LivePasses(i)' = {})]_vars

\* Two passes live side by side on the two pass objects while a third
\* start_pass waits for one of them, on an object that was used before.
C35_Witness ==
    /\ \A i \in PassIndices : Cardinality(LivePasses(i)) = 1
    /\ \E t \in Threads : tpc[t] = "take"
    /\ Len(handed) >= 3

\* C36: get_next_index hands out the pass object indices round-robin.  The
\* counter is always in [0, pass_objects.len()); every call returns the
\* value it advanced the counter from; k calls, concurrent or not, leave
\* the counter at k modulo the length, the j-th to succeed having returned
\* (j - 1) modulo the length, so no step of the counter goes to two callers.
C36_RoundRobinIndices ==
    /\ [](/\ next_index \in PassIndices
          /\ next_index = Len(handed) % PassObjectCount
          /\ \A j \in 1 .. Len(handed) : handed[j] = (j - 1) % PassObjectCount)
    /\ [][Len(handed') = Len(handed) + 1 =>
            /\ handed'[Len(handed')] = next_index
            /\ next_index' = (next_index + 1) % PassObjectCount]_vars

\* A call loaded the counter, lost the exchange to another call, and
\* succeeded on its second try: all three calls have returned.
C36_Witness ==
    /\ Len(handed) = 3
    /\ \E t \in Threads : tpc[t] = "take" /\ current[t] = pass_index[t] /\ pass_index[t] = 0
    /\ next_index = 1

(***************************************************************************)
(* The debug pipeline: the map of shader pipelines.  Each of the three     *)
(* operations runs under the mutex of the map, so each is one step.        *)
(***************************************************************************)
\* ShaderPipelines::new
ShaderPipelines_new == [used_counter |-> 0, marked |-> FALSE]

inc_used(p) == [p EXCEPT !.used_counter = @ + 1]

dec_used(p) == [p EXCEPT !.used_counter = @ - 1]

mark(p) == [p EXCEPT !.marked = TRUE]

can_drop(p) == p.marked /\ p.used_counter = 0

\* EmulatorPipeline::inc_shader_used.  Without an entry the shader is looked
\* up in the emulator, which has it as long as it is not dropped.
inc_shader_used(shader) ==
    /\ pipeline_state = "alive"
    /\ in_use[shader] < MaxUsed
    /\ IF pipelines[shader] # OptNone
       THEN pipelines' = [pipelines EXCEPT ![shader] = Some(inc_used(@[1]))]
       ELSE /\ shader_alive[shader]
            /\ pipelines' = [pipelines EXCEPT ![shader] = Some(inc_used(ShaderPipelines_new))]
    /\ in_use' = [in_use EXCEPT ![shader] = @ + 1]
    /\ UNCHANGED <<shader_alive, removed, passVars, drawVars, transferVars>>

\* Mutant of dec_shader_used: the entry is kept whatever can_drop says.
dec_shader_used_keeps(shader) ==
    /\ pipeline_state = "alive"
    /\ in_use[shader] > 0
    /\ pipelines[shader] # OptNone
    /\ pipelines' = [pipelines EXCEPT ![shader] = Some(dec_used(@[1]))]
    /\ in_use' = [in_use EXCEPT ![shader] = @ - 1]
    /\ UNCHANGED <<shader_alive, removed, passVars, drawVars, transferVars>>

\* EmulatorPipeline::dec_shader_used, called for a use taken earlier.
dec_shader_used(shader) ==
    /\ pipeline_state = "alive"
    /\ in_use[shader] > 0
    /\ pipelines[shader] # OptNone
    /\ LET entry == dec_used(pipelines[shader][1])
           drop == can_drop(entry)
       IN  /\ pipelines' = [pipelines EXCEPT ![shader] = IF drop THEN OptNone ELSE Some(entry)]
           /\ removed' = IF drop THEN removed \cup {shader} ELSE removed
    /\ in_use' = [in_use EXCEPT ![shader] = @ - 1]
    /\ UNCHANGED <<shader_alive, passVars, drawVars, transferVars>>

\* ShaderDropListener::on_shader_drop, called once when the shader is dropped.
on_shader_drop(id) ==
    /\ pipeline_state = "alive"
    /\ shader_alive[id]
    /\ shader_alive' = [shader_alive EXCEPT ![id] = FALSE]
    /\ IF pipelines[id] # OptNone
       THEN LET entry == mark(pipelines[id][1])
                drop == can_drop(entry)
            IN  /\ pipelines' = [pipelines EXCEPT ![id] = IF drop THEN OptNone ELSE Some(entry)]
                /\ removed' = IF drop THEN removed \cup {id} ELSE removed
       ELSE UNCHANGED <<pipelines, removed>>
    /\ UNCHANGED <<in_use, passVars, drawVars, transferVars>>

InitShader == Start /\ budget = 0 /\ queue_family = 0

NextShader ==
    \/ \E shader \in ShaderIds : inc_shader_used(shader)
    \/ \E shader \in ShaderIds : dec_shader_used(shader)
    \/ \E id \in ShaderIds : on_shader_drop(id)

ShaderSpec == InitShader /\ [][NextShader]_vars

DrawShaders == {"s1", "s2"}
Topologies == {"TRIANGLE_LIST", "LINE_LIST"}
VertexBuffers == {"v1", "v2"}
IndexBuffers == {"x1", "x2"}
IndexTypes == {"UINT16", "UINT32"}
UniformData ==
    {<<"ModelViewMatrix", 2>>, <<"ChunkOffset", 1>>, <<"ProjectionMatrix", 2>>, <<"TextureMatrix", 2>>}

DrawTask(shader, primitive_topology, depth_write_enable, vertex_buffer, index_buffer, index_type) ==
    [shader |-> shader, primitive_topology |-> primitive_topology,
     depth_write_enable |-> depth_write_enable, vertex_buffer |-> vertex_buffer,
     index_buffer |-> index_buffer, index_type |-> index_type]

DrawTasks ==
    {DrawTask(s, p, d, v, x, y) :
        s \in DrawShaders, p \in Topologies, d \in BOOLEAN,
        v \in VertexBuffers, x \in IndexBuffers, y \in IndexTypes}

\* UniformStateTracker::update_uniform
UniformStateTracker_update_uniform(tracker, data) ==
    LET name == data[1]
        value == data[2]
        range == tracker.static_uniform_cache.fog_range_and_game_time
    IN  CASE name = "ModelViewMatrix" ->
                [tracker EXCEPT !.push_constant_cache.model_view_matrix = value,
                                !.push_constants_dirty = TRUE]
          [] name = "ChunkOffset" ->
                [tracker EXCEPT !.push_constant_cache.chunk_offset = value,
                                !.push_constants_dirty = TRUE]
          [] name = "ProjectionMatrix" ->
                [tracker EXCEPT !.static_uniform_cache.projection_matrix = value,
                                !.static_uniforms_dirty = TRUE]
          [] name = "ScreenSize" ->
                [tracker EXCEPT !.static_uniform_cache.screen_size = value,
                                !.static_uniforms_dirty = TRUE]
          [] name = "FogStart" ->
                [tracker EXCEPT !.static_uniform_cache.fog_range_and_game_time = [range EXCEPT ![1] = value],
                                !.static_uniforms_dirty = TRUE]
          [] name = "FogEnd" ->
                [tracker EXCEPT !.static_uniform_cache.fog_range_and_game_time = [range EXCEPT ![2] = value],
                                !.static_uniforms_dirty = TRUE]
          [] name = "FogColor" ->
                [tracker EXCEPT !.static_uniform_cache.fog_color = value,
                                !.static_uniforms_dirty = TRUE]
          [] name = "FogShape" ->
                [tracker EXCEPT !.static_uniform_cache.fog_shape = value,
                                !.static_uniforms_dirty = TRUE]
          [] name = "GameTime" ->
                [tracker EXCEPT !.static_uniform_cache.fog_range_and_game_time = [range EXCEPT ![3] = value],
                                !.static_uniforms_dirty = TRUE]
          [] OTHER -> tracker

\* UniformStateTracker::validate_push_constants: the tracker afterwards and
\* the value returned.
validate_push_constants(tracker) ==
    IF tracker.push_constants_dirty
    THEN [tracker |-> [tracker EXCEPT !.push_constants_dirty = FALSE],
          out |-> Some(tracker.push_constant_cache)]
    ELSE [tracker |-> tracker, out |-> OptNone]

\* UniformStateTracker::validate_static_uniforms
validate_static_uniforms(tracker) ==
    IF tracker.static_uniforms_dirty
    THEN [tracker |-> [tracker EXCEPT !.static_uniforms_dirty = FALSE],
          out |-> Some(tracker.static_uniform_cache)]
    ELSE [tracker |-> tracker, out |-> OptNone]

\* The PipelineConfig that draw builds from its task.
PipelineConfig(task) ==
    [primitive_topology |-> task.primitive_topology,
     depth_test_enable |-> TRUE,
     depth_write_enable |-> task.depth_write_enable]

\* DebugPipeline::get_pipeline: the one pipeline of the shader's entry for
\* this config, created at its first use.
get_pipeline(shader, config) == <<shader, config>>

\* The tracker of a shader, made new if the pass has none for it yet.
TrackerOf(shader) ==
    IF shader_uniforms[shader] = OptNone THEN UniformStateTracker_new
    ELSE shader_uniforms[shader][1]

\* DebugPipelinePass::update_uniform
update_uniform(shader, data) ==
    /\ pipeline_state = "alive"
    /\ n_tasks < MaxPassTasks
    /\ shader_uniforms' = [shader_uniforms EXCEPT ![shader] =
                              Some(UniformStateTracker_update_uniform(TrackerOf(shader), data))]
    /\ last_draw' = OptNone
    /\ n_tasks' = n_tasks + 1
    /\ UNCHANGED <<current_pipeline, current_vertex_buffer, current_index_buffer, cmd,
                   passVars, shaderVars, transferVars>>

\* DebugPipelinePass::draw.  get_pipeline panics for a shader that is not
\* registered in the pipelines map.
draw(task) ==
    /\ pipeline_state = "alive"
    /\ n_tasks < MaxPassTasks
    /\ LET pipeline_config == PipelineConfig(task)
           bind_pipeline == current_pipeline # Some(<<task.shader, pipeline_config>>)
           pushed == validate_push_constants(TrackerOf(task.shader))
           written == validate_static_uniforms(pushed.tracker)
           bind_vertex == current_vertex_buffer # Some(task.vertex_buffer)
           bind_index == current_index_buffer # Some(task.index_buffer)
           recorded ==
               [pipeline |-> IF bind_pipeline
                             THEN Some(get_pipeline(task.shader, pipeline_config))
                             ELSE cmd.pipeline,
                push_constants |-> IF pushed.out # OptNone THEN pushed.out
                                   ELSE cmd.push_constants,
                static_uniforms |-> IF written.out # OptNone THEN written.out
                                    ELSE cmd.static_uniforms,
                vertex_buffer |-> IF bind_vertex THEN Some(task.vertex_buffer)
                                  ELSE cmd.vertex_buffer,
                index_buffer |-> IF bind_index THEN Some(<<task.index_buffer, task.index_type>>)
                                 ELSE cmd.index_buffer]
       IN  /\ bind_pipeline => pipelines[task.shader] # OptNone
           /\ current_pipeline' = Some(<<task.shader, pipeline_config>>)
           /\ shader_uniforms' = [shader_uniforms EXCEPT ![task.shader] = Some(written.tracker)]
           /\ current_vertex_buffer' = Some(task.vertex_buffer)
           /\ current_index_buffer' = Some(task.index_buffer)
           /\ cmd' = recorded
           /\ last_draw' = Some([task |-> task, cmd |-> recorded,
                                 push_constant_cache |-> written.tracker.push_constant_cache])
    /\ n_tasks' = n_tasks + 1
    /\ UNCHANGED <<passVars, shaderVars, transferVars>>

InitDraw == Start /\ budget = 0 /\ queue_family = 0

\* The emulator registers a shader once before the tasks that use it.
NextDraw ==
    \/ \E shader \in DrawShaders : pipelines[shader] = OptNone /\ inc_shader_used(shader)
    \/ \E shader \in DrawShaders, data \in UniformData : update_uniform(shader, data)
    \/ \E task \in DrawTasks : draw(task)

DrawSpec == InitDraw /\ [][NextDraw]_vars

\* C38: within one DebugPipelinePass, at every draw the push constants most
\* recently recorded into the command buffer equal the cached push
\* constants of the shader the draw uses, for any sequence of
\* update_uniform and draw tasks over one or several shaders.
C38_DrawUsesShaderPushConstants ==
    last_draw # OptNone =>
        last_draw[1].cmd.push_constants = Some(last_draw[1].push_constant_cache)

\* C39: within one DebugPipelinePass, at every indexed draw the state bound
\* in the command buffer equals the state of the draw task: the pipeline
\* for (shader, topology, depth-write), the vertex buffer, and the index
\* buffer together with its index type; a bind is skipped only when what is
\* bound already is identical to what the task names.
C39_DrawUsesTaskState ==
    last_draw # OptNone =>
        LET task == last_draw[1].task
            bound == last_draw[1].cmd
        IN  /\ bound.pipeline = Some(get_pipeline(task.shader, PipelineConfig(task)))
            /\ bound.vertex_buffer = Some(task.vertex_buffer)
            /\ bound.index_buffer = Some(<<task.index_buffer, task.index_type>>)

\* C40: when a DebugPipeline has been dropped, every image, image view,
\* framebuffer and memory allocation that PassObjects::new created for each
\* pass object (depth, color and uv0) has been destroyed or freed exactly
\* once: none is leaked, none is freed twice.
C40_PassObjectsDestroyedOnce ==
    pipeline_state = "dropped" =>
        \A i \in PassIndices, r \in Resources :
            Cardinality({k \in 1 .. Len(destroyed) : destroyed[k] = <<i, r>>}) = 1

====
